---- MODULE Spec2Model ----
(***************************************************************************)
(* chvm (Chromium Version Manager): the lock manager (lib/lock.js), the   *)
(* atomic installer (lib/installer.js), the installed-registry            *)
(* (lib/storage.js) and the install command (cli.js).                     *)
(*                                                                         *)
(* Time is in milliseconds.  lib/lock.js delegates the exclusion itself   *)
(* to the proper-lockfile package: lock(file) is mkdir("<file>.lock"); on *)
(* EEXIST it stats the directory and, when its mtime is older than        *)
(* `stale`, rmdir's it and mkdir's once more; ELOCKED is retried with the *)
(* `retry` package's exponential back-off; the holder re-touches the      *)
(* directory every stale/2 ms; release() rmdir's it and a second release  *)
(* is refused with ERELEASED.                                              *)
(***************************************************************************)
EXTENDS Integers, Sequences, FiniteSets, TLC

\* ---------------------------------------------------------------- bounds
NumProcs == 2
MaxTime == 61000
MaxTimeoutOpt == 300
MaxZipSize == 2
MaxStamp == 2
MaxRetries == 3
NumErrors == 2
MaxVersionLen == 3
MaxCatalog == 3
MaxRevisions == 4
MaxReleases == 2
MaxEntries == 3
MaxOps == 3
MaxPages == 2
MaxTotal == 4
MaxChunks == 3
MaxChunkLen == 2
MaxListed == 2

\* ------------------------------------------------------ program constants
RetryUnit == 100
MinTimeout == 100
MaxTimeout == 1000
DefaultStaleTimeout == 60000
DefaultDelay == 1000
DefaultBackoff == 2
ProbeWindow == 50
TestStaleTimeout == 30000

Procs == 1..NumProcs
TimeoutOpts == {MaxTimeoutOpt \div 2, MaxTimeoutOpt}

Min(a, b) == IF a <= b THEN a ELSE b
Max(a, b) == IF a >= b THEN a ELSE b

VARIABLES
  now,        \* Date.now()
  lockFile,   \* <home>/chvm.lock : the JSON file {pid, timestamp}
  lockDir,    \* <home>/chvm.lock.lock : the directory proper-lockfile makes
  pc,         \* per process: where it is in withLock
  timeoutOpt, \* per process: options.timeout of its acquireLock
  attempts,   \* per process: retries already used by the retry operation
  wakeAt,     \* per process: when its back-off sleep ends
  waited,     \* per process: the sum of the back-off sleeps so far
  lastUpdate, \* per process: when it last touched the lock directory
  released,   \* per process: the handle's `released` flag
  relErr,     \* per process: did the last releaseLock call reject
  fnResult,   \* per process: how fn ended ("none", "ok", "err")
  tookOver    \* per process: its acquisition removed a stale directory

lockVars == <<now, lockFile, lockDir, pc, timeoutOpt, attempts, wakeAt,
              waited, lastUpdate, released, relErr, fnResult, tookOver>>

VARIABLES
  ipc,        \* where the install command is
  resolved,   \* the catalog entry the query resolved to
  regFile,    \* installed.json, as written
  reg0,       \* installed.json when the command began
  metaSize,   \* the size the artifact metadata states for chrome-mac.zip
  archive,    \* what the remote archive holds
  zip,        \* tmp/chrome-<revision>.zip
  tmpExists,  \* tmp/install-<random> exists
  src,        \* the directory populate fills inside the temporary directory
  copied,     \* names fs.cp has copied so far
  final,      \* installs/<key>.app
  final0,     \* installs/<key>.app when the command began
  err,        \* the error the command is failing with ("none" if none)
  returned    \* the path populate returns: "tmpDir" itself or an "appPath" in it

installVars == <<ipc, resolved, regFile, reg0, metaSize, archive, zip,
                 tmpExists, src, copied, final, final0, err, returned>>

VARIABLES
  rpc,        \* where retryFetch is
  retries,    \* options.retries
  failing,    \* how many leading invocations of fetchFn fail
  attempt,    \* the loop counter
  calls,      \* invocations of fetchFn so far
  errors,     \* the errors fetchFn has thrown, in order
  lastError,  \* the variable lastError (0: undefined)
  sleeps,     \* the waits of setTimeout, in order
  result      \* what retryFetch returned or threw

retryVars == <<rpc, retries, failing, attempt, calls, errors, lastError,
               sleeps, result>>

VARIABLES
  mpc,        \* which function of lib/mapping.js has been applied
  v1, v2,     \* the arguments of compareVersions
  cmp,        \* what compareVersions returned
  revisions,  \* what fetchRevisions returned
  releases,   \* allReleases: the channels' releases, concatenated
  available,  \* the catalog: built, or read from available.json
  query,      \* the query given to resolveVersion
  match       \* what resolveVersion returned

mappingVars == <<mpc, v1, v2, cmp, revisions, releases, available, query,
                 match>>

VARIABLES
  vpc,          \* where validateDownload / verifyAppBundle is
  dlFile,       \* the file validateDownload is given
  expectedSize, \* options.expectedSize (0: not given)
  validation,   \* what validateDownload returned or threw
  bundle,       \* the directory verifyAppBundle is given
  bundle0,      \* that directory before the first call
  entryIdx,     \* the position of the loop over readdir(macOSDir)
  verdict,      \* what verifyAppBundle returned ("none" before it returns)
  runs,         \* calls of verifyAppBundle on the bundle that have returned
  firstRun      \* the verdict and the bundle after the first call

checkVars == <<vpc, dlFile, expectedSize, validation, bundle, bundle0,
               entryIdx, verdict, runs, firstRun>>

VARIABLES
  hpc,        \* where the observer's call of isLocked is
  hopt,       \* options.staleTimeout of that call
  held        \* what the last call returned ("none" while one is running)

heldVars == <<hpc, hopt, held>>

VARIABLES
  store,      \* installed.json
  store0,     \* installed.json before the last call
  lastOp,     \* the last call of addInstalledVersion / removeInstalledVersion
  ops         \* calls made so far

storeVars == <<store, store0, lastOp, ops>>

VARIABLES
  upc,        \* where the uninstall command is
  uquery,     \* its argument
  uentry,     \* what resolveVersion returned, if it was called
  ukey,       \* versionToUninstall
  ureg,       \* installed.json
  ureg0,      \* installed.json when the command began
  apps,       \* the application directories that exist, by path
  profiles,   \* the keys k whose profiles/k exists
  tmps,       \* the keys k whose tmp/k exists
  uerr        \* the error the command is failing with ("none" if none)

uninstallVars == <<upc, uquery, uentry, ukey, ureg, ureg0, apps, profiles,
                   tmps, uerr>>

VARIABLES
  xpc,        \* where the update command is
  pageNo,     \* pages of the revision listing fetched so far
  xrevs,      \* allRevisions
  chans,      \* how the fetch of each channel's releases ended
  xrels,      \* allReleases
  xbuilt,     \* what buildAvailableVersions returned
  avail,      \* available.json
  avail0,     \* available.json when the command began
  xerr        \* the error the command is failing with ("none" if none)

updateVars == <<xpc, pageNo, xrevs, chans, xrels, xbuilt, avail, avail0, xerr>>

VARIABLES
  rdKind,     \* the file read: "catalog" or "registry"
  rdFile,     \* that file
  rdResult    \* what the read returned or threw

readVars == <<rdKind, rdFile, rdResult>>

VARIABLES
  dpc,            \* where downloadWithProgress is
  totalSize,      \* the content-length of the response, 0 if it has none
  chunks,         \* the lengths of the chunks read so far, in order
  downloadedSize, \* the bytes written so far
  notes           \* the objects onProgress was called with, in order

progressVars == <<dpc, totalSize, chunks, downloadedSize, notes>>

extVars == <<heldVars, storeVars, uninstallVars, updateVars, readVars,
             progressVars>>

\* what the actions of one component leave alone among these
notHeld == <<storeVars, uninstallVars, updateVars, readVars, progressVars>>
notStore == <<heldVars, uninstallVars, updateVars, readVars, progressVars>>
notUninstall == <<heldVars, storeVars, updateVars, readVars, progressVars>>
notUpdate == <<heldVars, storeVars, uninstallVars, readVars, progressVars>>
notRead == <<heldVars, storeVars, uninstallVars, updateVars, progressVars>>
notProgress == <<heldVars, storeVars, uninstallVars, updateVars, readVars>>

libVars == <<retryVars, mappingVars, checkVars, extVars>>

vars == <<lockVars, installVars, libVars>>

NoDir == [exists |-> FALSE, mtime |-> 0, owner |-> 0]
NoFile == [exists |-> FALSE, pid |-> 0, timestamp |-> 0]

\* ------------------------------------------------------------ lock manager

\* retries: Math.floor(timeout / 100)
Retries(timeout) == timeout \div RetryUnit

\* the retry package: min(minTimeout * 2^attempt, maxTimeout)
RetryDelay(k) == Min(MinTimeout * (2 ^ Min(k, 10)), MaxTimeout)

\* stale: staleTimeout (proper-lockfile raises it to at least 2000)
Stale == Max(DefaultStaleTimeout, 2000)

\* the holder touches the directory every stale/2
UpdateInterval == Stale \div 2

\* a stale check that never finds a lock stale
NeverStale(dir, t) == FALSE

\* isLockStale: mtime < Date.now() - stale
IsLockStale(dir, t) == dir.mtime < t - Stale

LockInit ==
  /\ now = 0
  /\ lockFile = NoFile
  /\ lockDir = NoDir
  /\ pc = [p \in Procs |-> "idle"]
  /\ timeoutOpt = [p \in Procs |-> 0]
  /\ attempts = [p \in Procs |-> 0]
  /\ wakeAt = [p \in Procs |-> 0]
  /\ waited = [p \in Procs |-> 0]
  /\ lastUpdate = [p \in Procs |-> 0]
  /\ released = [p \in Procs |-> FALSE]
  /\ relErr = [p \in Procs |-> FALSE]
  /\ fnResult = [p \in Procs |-> "none"]
  /\ tookOver = [p \in Procs |-> FALSE]

\* acquireLock, lines 11-15: read the options, existsSync(lockFile)
AcquireStart(p) ==
  /\ pc[p] = "idle"
  /\ \E t \in TimeoutOpts : timeoutOpt' = [timeoutOpt EXCEPT ![p] = t]
  /\ pc' = [pc EXCEPT ![p] = IF lockFile.exists THEN "mkdir" ELSE "write"]
  /\ UNCHANGED <<now, lockFile, lockDir, attempts, wakeAt, waited, lastUpdate,
                 released, relErr, fnResult,
                 tookOver,
                 installVars, libVars>>

\* acquireLock, lines 16-19: writeFile(lockFile, {pid, timestamp})
WriteLockFile(p) ==
  /\ pc[p] = "write"
  /\ lockFile' = [exists |-> TRUE, pid |-> p, timestamp |-> now]
  /\ pc' = [pc EXCEPT ![p] = "mkdir"]
  /\ UNCHANGED <<now, lockDir, timeoutOpt, attempts, wakeAt, waited,
                 lastUpdate, released, relErr, fnResult,
                 tookOver,
                 installVars, libVars>>

\* the lock is taken: mkdir succeeded
Acquired(p) ==
  /\ lockDir' = [exists |-> TRUE, mtime |-> now, owner |-> p]
  /\ lastUpdate' = [lastUpdate EXCEPT ![p] = now]
  /\ pc' = [pc EXCEPT ![p] = "body"]
  /\ UNCHANGED <<attempts, wakeAt, waited>>

\* ELOCKED: the retry operation sleeps and tries again, or gives up and
\* acquireLock throws 'Failed to acquire lock'
Elocked(p) ==
  /\ UNCHANGED <<lockDir, lastUpdate>>
  /\ IF attempts[p] < Retries(timeoutOpt[p])
       THEN /\ pc' = [pc EXCEPT ![p] = "wait"]
            /\ wakeAt' = [wakeAt EXCEPT ![p] = now + RetryDelay(attempts[p])]
            /\ waited' = [waited EXCEPT ![p] = @ + RetryDelay(attempts[p])]
            /\ attempts' = [attempts EXCEPT ![p] = @ + 1]
       ELSE /\ pc' = [pc EXCEPT ![p] = "failed"]
            /\ UNCHANGED <<attempts, wakeAt, waited>>

\* lockfile.lock, first mkdir of an attempt
Mkdir(p) ==
  /\ pc[p] = "mkdir"
  /\ IF ~lockDir.exists
       THEN Acquired(p)
       ELSE /\ pc' = [pc EXCEPT ![p] = "stat"]
            /\ UNCHANGED <<lockDir, lastUpdate, attempts, wakeAt, waited>>
  /\ UNCHANGED <<now, lockFile, timeoutOpt, released, relErr, fnResult,
                 tookOver,
                 installVars, libVars>>

\* lockfile.lock, after EEXIST: stat the directory and judge its age
StatLock(p) ==
  /\ pc[p] = "stat"
  /\ IF ~lockDir.exists
       THEN /\ pc' = [pc EXCEPT ![p] = "mkdir0"]
            /\ UNCHANGED <<lockDir, lastUpdate, attempts, wakeAt, waited>>
       ELSE IF IsLockStale(lockDir, now)
         THEN /\ pc' = [pc EXCEPT ![p] = "rmdir"]
              /\ UNCHANGED <<lockDir, lastUpdate, attempts, wakeAt, waited>>
         ELSE Elocked(p)
  /\ UNCHANGED <<now, lockFile, timeoutOpt, released, relErr, fnResult,
                 tookOver,
                 installVars, libVars>>

\* lockfile.lock, the directory was judged stale: rmdir it (ENOENT ignored)
RemoveStale(p) ==
  /\ pc[p] = "rmdir"
  /\ lockDir' = NoDir
  /\ pc' = [pc EXCEPT ![p] = "mkdir0"]
  /\ tookOver' = [tookOver EXCEPT ![p] = TRUE]
  /\ UNCHANGED <<now, lockFile, timeoutOpt, attempts, wakeAt, waited,
                 lastUpdate, released, relErr, fnResult,
                 installVars, libVars>>

\* lockfile.lock, second mkdir of an attempt (stale check off)
Mkdir0(p) ==
  /\ pc[p] = "mkdir0"
  /\ IF ~lockDir.exists THEN Acquired(p) ELSE Elocked(p)
  /\ UNCHANGED <<now, lockFile, timeoutOpt, released, relErr, fnResult,
                 tookOver,
                 installVars, libVars>>

\* the back-off sleep is over: next attempt
Retry(p) ==
  /\ pc[p] = "wait"
  /\ now >= wakeAt[p]
  /\ pc' = [pc EXCEPT ![p] = "mkdir"]
  /\ wakeAt' = [wakeAt EXCEPT ![p] = 0]
  /\ tookOver' = [tookOver EXCEPT ![p] = FALSE]
  /\ UNCHANGED <<now, lockFile, lockDir, timeoutOpt, attempts, waited,
                 lastUpdate, released, relErr, fnResult,
                 installVars, libVars>>

InWithLock(p) == pc[p] \in {"body", "release"}

UpdateDue(p) == InWithLock(p) /\ now >= lastUpdate[p] + UpdateInterval

\* the holder's update timer: touch the directory; a directory that is gone
\* or is not the one it made is a compromised lock, whose default handler
\* throws out of the timer and ends the process
UpdateLock(p) ==
  /\ UpdateDue(p)
  /\ IF lockDir.exists /\ lockDir.owner = p
       THEN /\ lockDir' = [lockDir EXCEPT !.mtime = now]
            /\ lastUpdate' = [lastUpdate EXCEPT ![p] = now]
            /\ pc' = pc
            /\ UNCHANGED <<timeoutOpt, attempts, waited, fnResult, tookOver>>
       ELSE /\ pc' = [pc EXCEPT ![p] = "crashed"]
            /\ timeoutOpt' = [timeoutOpt EXCEPT ![p] = 0]
            /\ attempts' = [attempts EXCEPT ![p] = 0]
            /\ waited' = [waited EXCEPT ![p] = 0]
            /\ lastUpdate' = [lastUpdate EXCEPT ![p] = 0]
            /\ fnResult' = [fnResult EXCEPT ![p] = "none"]
            /\ tookOver' = [tookOver EXCEPT ![p] = FALSE]
            /\ UNCHANGED lockDir
  /\ UNCHANGED <<now, lockFile, wakeAt, released, relErr,
                 installVars, libVars>>

\* withLock, lines 48-50: fn returns or throws
FnEnd(p) ==
  /\ pc[p] = "body"
  /\ \E r \in {"ok", "err"} : fnResult' = [fnResult EXCEPT ![p] = r]
  /\ pc' = [pc EXCEPT ![p] = "release"]
  /\ timeoutOpt' = [timeoutOpt EXCEPT ![p] = 0]
  /\ attempts' = [attempts EXCEPT ![p] = 0]
  /\ waited' = [waited EXCEPT ![p] = 0]
  /\ tookOver' = [tookOver EXCEPT ![p] = FALSE]
  /\ UNCHANGED <<now, lockFile, lockDir, wakeAt, lastUpdate, released,
                 relErr,
                 installVars, libVars>>

\* release(): refused once released, else rmdir the lock directory
ReleaseHandle(p) ==
  IF released[p]
    THEN /\ relErr' = [relErr EXCEPT ![p] = TRUE]
         /\ UNCHANGED <<lockDir, released>>
    ELSE /\ relErr' = [relErr EXCEPT ![p] = FALSE]
         /\ released' = [released EXCEPT ![p] = TRUE]
         /\ lockDir' = NoDir

\* a withLock that releases after a normal return only
ReleaseIfOk(p) ==
  /\ pc[p] = "release"
  /\ IF fnResult[p] = "ok"
       THEN ReleaseHandle(p)
       ELSE UNCHANGED <<lockDir, released, relErr>>
  /\ pc' = [pc EXCEPT ![p] = "done"]
  /\ lastUpdate' = [lastUpdate EXCEPT ![p] = 0]
  /\ UNCHANGED <<now, lockFile, timeoutOpt, attempts, wakeAt, waited,
                 fnResult, tookOver,
                 installVars, libVars>>

\* withLock, lines 51-53: finally releaseLock(release)
Release(p) ==
  /\ pc[p] = "release"
  /\ ReleaseHandle(p)
  /\ pc' = [pc EXCEPT ![p] = "done"]
  /\ lastUpdate' = [lastUpdate EXCEPT ![p] = 0]
  /\ UNCHANGED <<now, lockFile, timeoutOpt, attempts, wakeAt, waited,
                 fnResult,
                 tookOver,
                 installVars, libVars>>

\* releaseLock called again on a handle already released
ReleaseAgain(p) ==
  /\ pc[p] = "done"
  /\ ~relErr[p]
  /\ ReleaseHandle(p)
  /\ UNCHANGED <<now, lockFile, pc, timeoutOpt, attempts, wakeAt, waited,
                 lastUpdate, fnResult,
                 tookOver,
                 installVars, libVars>>

\* the process is killed inside withLock: its lock directory stays behind
Crash(p) ==
  /\ InWithLock(p)
  /\ pc' = [pc EXCEPT ![p] = "crashed"]
  /\ lockDir' = IF lockDir.exists /\ lockDir.owner = p
                  THEN [lockDir EXCEPT !.owner = 0] ELSE lockDir
  /\ timeoutOpt' = [timeoutOpt EXCEPT ![p] = 0]
  /\ attempts' = [attempts EXCEPT ![p] = 0]
  /\ waited' = [waited EXCEPT ![p] = 0]
  /\ lastUpdate' = [lastUpdate EXCEPT ![p] = 0]
  /\ fnResult' = [fnResult EXCEPT ![p] = "none"]
  /\ tookOver' = [tookOver EXCEPT ![p] = FALSE]
  /\ UNCHANGED <<now, lockFile, wakeAt, released, relErr,
                 installVars, libVars>>

\* a new invocation of the command after one was killed
NewProcess(p) ==
  /\ pc[p] = "crashed"
  /\ pc' = [pc EXCEPT ![p] = "idle"]
  /\ UNCHANGED <<now, lockFile, lockDir, timeoutOpt, attempts, wakeAt, waited,
                 lastUpdate, released, relErr, fnResult,
                 tookOver,
                 installVars, libVars>>

\* the instants at which something is due: a sleeper wakes, a holder's update
\* timer fires, the lock directory turns stale
Deadlines ==
  {wakeAt[p] : p \in {q \in Procs : pc[q] = "wait"}}
    \cup {lastUpdate[p] + UpdateInterval : p \in {q \in Procs : InWithLock(q)}}
    \cup (IF lockDir.exists THEN {lockDir.mtime + Stale + 1} ELSE {})

MidAttempt(p) == pc[p] \in {"write", "mkdir", "stat", "rmdir", "mkdir0"}

\* time passes up to the next deadline; timers fire on time and the file
\* system calls of an attempt take no time
Advance ==
  /\ \A p \in Procs : ~MidAttempt(p) /\ ~UpdateDue(p)
  /\ \A p \in Procs : pc[p] = "wait" => now < wakeAt[p]
  /\ \E d \in Deadlines :
       /\ d > now
       /\ d <= MaxTime
       /\ \A e \in Deadlines : e > now => d <= e
       /\ now' = d
  /\ UNCHANGED <<lockFile, lockDir, pc, timeoutOpt, attempts, wakeAt, waited,
                 lastUpdate, released, relErr, fnResult,
                 tookOver,
                 installVars, libVars>>

LockNext ==
  \/ \E p \in Procs : AcquireStart(p)
  \/ \E p \in Procs : WriteLockFile(p)
  \/ \E p \in Procs : Mkdir(p)
  \/ \E p \in Procs : StatLock(p)
  \/ \E p \in Procs : RemoveStale(p)
  \/ \E p \in Procs : Mkdir0(p)
  \/ \E p \in Procs : Retry(p)
  \/ \E p \in Procs : UpdateLock(p)
  \/ \E p \in Procs : FnEnd(p)
  \/ \E p \in Procs : Release(p)
  \/ \E p \in Procs : ReleaseAgain(p)
  \/ \E p \in Procs : Crash(p)
  \/ \E p \in Procs : NewProcess(p)
  \/ Advance


\* ------------------------------------------------------- installed registry

\* a directory: a function from file names to files; EmptyFiles has none
EmptyFiles == << >>
NoPath == [exists |-> FALSE, files |-> EmptyFiles]
Dir(files) == [exists |-> TRUE, files |-> files]

\* property keys that are array indices (revision numbers), with their value
ArrayIndex == ("882387" :> 882387) @@ ("911515" :> 911515)
IsIndexKey(k) == k \in DOMAIN ArrayIndex

\* a JavaScript object: its properties in enumeration order
Keys(obj) == {obj[i].key : i \in DOMAIN obj}
Get(obj, k) == obj[CHOOSE i \in DOMAIN obj : obj[i].key = k].val

\* obj[k] = v : replaces in place, else index keys ascending first, then the
\* other keys in insertion order
SetProp(obj, k, v) ==
  IF k \in Keys(obj)
    THEN [i \in DOMAIN obj |->
            IF obj[i].key = k THEN [key |-> k, val |-> v] ELSE obj[i]]
    ELSE IF IsIndexKey(k)
      THEN LET n == Cardinality({i \in DOMAIN obj :
                      /\ IsIndexKey(obj[i].key)
                      /\ ArrayIndex[obj[i].key] < ArrayIndex[k]})
           IN SubSeq(obj, 1, n) \o <<[key |-> k, val |-> v]>>
                \o SubSeq(obj, n + 1, Len(obj))
      ELSE Append(obj, [key |-> k, val |-> v])

\* a delete that drops the property enumerated last
DeleteLast(obj, k) == SubSeq(obj, 1, Len(obj) - 1)

\* delete obj[k]
DeleteProp(obj, k) == SelectSeq(obj, LAMBDA e : e.key # k)

\* JSON.stringify(data, null, 2): the members in enumeration order, each
\* record as the list of its values
Stringify(obj) ==
  [i \in DOMAIN obj |->
     <<obj[i].key, <<obj[i].val.revision, obj[i].val.path,
                     obj[i].val.installedAt, obj[i].val.size>>>>]

\* JSON.parse(content): the members are set one after the other
RECURSIVE ParseFrom(_, _, _)
ParseFrom(text, i, obj) ==
  IF i > Len(text) THEN obj
  ELSE ParseFrom(text, i + 1,
         SetProp(obj, text[i][1],
                 [revision |-> text[i][2][1], path |-> text[i][2][2],
                  installedAt |-> text[i][2][3], size |-> text[i][2][4]]))
Parse(text) == ParseFrom(text, 1, << >>)

\* installed.json: absent, or its text
NoRegistry == [exists |-> FALSE, text |-> << >>]

\* readInstalledVersions
ReadInstalledVersions(file) ==
  IF ~file.exists THEN << >> ELSE Parse(file.text)

\* writeInstalledVersions
WriteInstalledVersions(data) == [exists |-> TRUE, text |-> Stringify(data)]

\* a record with the revision and the path taken from each other's place
SwappedRecord(info, t) ==
  [revision |-> info.path, path |-> info.revision, installedAt |-> t,
   size |-> info.size]

\* the record addInstalledVersion stores
InstalledRecord(info, t) ==
  [revision |-> info.revision, path |-> info.path, installedAt |-> t,
   size |-> info.size]

\* addInstalledVersion
AddInstalledVersion(file, info, t) ==
  WriteInstalledVersions(
    SetProp(ReadInstalledVersions(file), info.version, InstalledRecord(info, t)))

\* removeInstalledVersion
RemoveInstalledVersion(file, version) ==
  WriteInstalledVersions(DeleteProp(ReadInstalledVersions(file), version))

\* ----------------------------------------------- install command, installer

\* catalog entries a query can resolve to; version "" is a null version
Entries ==
  {[version |-> "93.0.4577.82", revision |-> "911515"],
   [version |-> "", revision |-> "882387"]}

\* const installKey = resolved.version || resolved.revision
InstallKey(e) == IF e.version # "" THEN e.version ELSE e.revision

\* join(chvmHome, 'installs', `${installKey}.app`)
FinalPath(key) == "installs/" \o key \o ".app"

File(ver, size) == [ver |-> ver, size |-> size]

\* what an archive may unpack to: a bundle with its executable directory, a
\* bundle without it, or no .app at all
GoodBundle ==
  ("Contents/MacOS/Chromium" :> File("new", 3))
    @@ ("Contents/Info.plist" :> File("new", 1))
BadBundle == ("Contents/Info.plist" :> File("new", 1))
Archives ==
  {[app |-> TRUE, files |-> GoodBundle], [app |-> TRUE, files |-> BadBundle],
   [app |-> FALSE, files |-> BadBundle]}

\* an installation already at the final path
OldInstall ==
  ("Contents/MacOS/Chromium" :> File("old", 2)) @@ ("old.pak" :> File("old", 5))

\* registries the command may find
OtherRecord ==
  [revision |-> "870763", path |-> FinalPath("91.0.4472.77"),
   installedAt |-> 1, size |-> 7]
SameRecord ==
  [revision |-> "911515", path |-> FinalPath("93.0.4577.82"),
   installedAt |-> 1, size |-> 4]
Registries ==
  {NoRegistry,
   WriteInstalledVersions(<<[key |-> "91.0.4472.77", val |-> OtherRecord]>>),
   WriteInstalledVersions(<<[key |-> "93.0.4577.82", val |-> SameRecord]>>)}

\* calculateDirectorySize: the sum of the file sizes
RECURSIVE SumSizes(_, _)
SumSizes(files, names) ==
  IF names = {} THEN 0
  ELSE LET n == CHOOSE x \in names : TRUE
       IN files[n].size + SumSizes(files, names \ {n})
CalculateDirectorySize(files) == SumSizes(files, DOMAIN files)

\* fs.cp of one file: written over a file of the same name, beside the others
CopyInto(dest, name, file) ==
  [n \in DOMAIN dest \cup {name} |-> IF n = name THEN file ELSE dest[n]]

\* verifyAppBundle: appPath, Contents and Contents/MacOS exist
VerifyAppBundle(path) ==
  /\ path.exists
  /\ \E n \in DOMAIN path.files : n = "Contents/MacOS/Chromium"

InstallInit ==
  /\ ipc = "start"
  /\ resolved = [version |-> "", revision |-> ""]
  /\ regFile \in Registries
  /\ reg0 = regFile
  /\ metaSize = 0
  /\ archive = [app |-> FALSE, files |-> EmptyFiles]
  /\ zip = [exists |-> FALSE, size |-> 0]
  /\ tmpExists = FALSE
  /\ src = NoPath
  /\ copied = {}
  /\ final \in {NoPath, Dir(EmptyFiles), Dir(OldInstall)}
  /\ final0 = final
  /\ err = "none"
  /\ returned \in {"tmpDir", "appPath"}

\* cli.js 142-155: read the catalog and resolve the query
Resolve ==
  /\ ipc = "start"
  /\ \/ /\ \E e \in Entries : resolved' = e
        /\ ipc' = "check"
        /\ err' = err
     \/ /\ ipc' = "failed"
        /\ err' = "notfound"
        /\ resolved' = resolved
  /\ UNCHANGED <<regFile, reg0, metaSize, archive, zip, tmpExists, src,
                 copied, final, final0,
                 returned, lockVars, libVars>>

\* a command that goes on to install whatever the registry holds
InstallAnyway ==
  /\ ipc = "check"
  /\ ipc' = "metadata"
  /\ UNCHANGED <<resolved, regFile, reg0, metaSize, archive, zip, tmpExists,
                 src, copied, final, final0, err,
                 returned, lockVars, libVars>>

\* cli.js 157-163: already installed, nothing to do
CheckInstalled ==
  /\ ipc = "check"
  /\ ipc' = IF InstallKey(resolved) \in Keys(ReadInstalledVersions(regFile))
              THEN "already" ELSE "metadata"
  /\ UNCHANGED <<resolved, regFile, reg0, metaSize, archive, zip, tmpExists,
                 src, copied, final, final0, err,
                 returned, lockVars, libVars>>

\* cli.js 167-173: fetchRevisionMetadata and the chrome-mac.zip item
FetchMetadata ==
  /\ ipc = "metadata"
  /\ \/ /\ \E n \in 1..MaxZipSize : metaSize' = n
        /\ \E a \in Archives : archive' = a
        /\ ipc' = "download"
        /\ err' = err
     \/ /\ ipc' = "failed"
        /\ err' = "metadata"
        /\ UNCHANGED <<metaSize, archive>>
  /\ UNCHANGED <<resolved, regFile, reg0, zip, tmpExists, src, copied, final,
                 final0,
                 returned, lockVars, libVars>>

\* downloadWithProgress 32-41: the response is ok, the file is created
DownloadOpen ==
  /\ ipc = "download"
  /\ \/ /\ zip' = [exists |-> TRUE, size |-> 0]
        /\ ipc' = "chunks"
        /\ err' = err
     \/ /\ ipc' = "failed"
        /\ err' = "download"
        /\ zip' = zip
  /\ UNCHANGED <<resolved, regFile, reg0, metaSize, archive, tmpExists, src,
                 copied, final, final0,
                 returned, lockVars, libVars>>

\* downloadWithProgress 50-66: one chunk is read and written
DownloadChunk ==
  /\ ipc = "chunks"
  /\ zip.size < MaxZipSize
  /\ zip' = [zip EXCEPT !.size = @ + 1]
  /\ UNCHANGED <<ipc, resolved, regFile, reg0, metaSize, archive, tmpExists,
                 src, copied, final, final0, err,
                 returned, lockVars, libVars>>

\* downloadWithProgress 53, 68-74: the body is done, the file is flushed
DownloadEnd ==
  /\ ipc = "chunks"
  /\ ipc' = "mktmp"
  /\ UNCHANGED <<resolved, regFile, reg0, metaSize, archive, zip, tmpExists,
                 src, copied, final, final0, err,
                 returned, lockVars, libVars>>

\* downloadWithProgress 76-79: the stream fails, the partial file stays
DownloadFail ==
  /\ ipc = "chunks"
  /\ ipc' = "failed"
  /\ err' = "download"
  /\ UNCHANGED <<resolved, regFile, reg0, metaSize, archive, zip, tmpExists,
                 src, copied, final, final0,
                 returned, lockVars, libVars>>

\* atomicInstall 165-169: make the temporary directory
MakeTmpDir ==
  /\ ipc = "mktmp"
  /\ tmpExists' = TRUE
  /\ ipc' = "extract"
  /\ UNCHANGED <<resolved, regFile, reg0, metaSize, archive, zip, src, copied,
                 final, final0, err,
                 returned, lockVars, libVars>>

\* a populate step that unpacks straight into the final path
ExtractIntoFinal ==
  /\ ipc = "extract"
  /\ \E n \in DOMAIN archive.files \ DOMAIN src.files :
       /\ src' = Dir(CopyInto(src.files, n, archive.files[n]))
       /\ final' = Dir(CopyInto(final.files, n, archive.files[n]))
  /\ UNCHANGED <<ipc, resolved, regFile, reg0, metaSize, archive, zip,
                 tmpExists, copied, final0, err,
                 returned, lockVars, libVars>>

\* populate (cli.js 189-194, extractZip): unzip writes one more file under
\* <tmpDir>/extracted
ExtractFile ==
  /\ ipc = "extract"
  /\ \E n \in DOMAIN archive.files \ DOMAIN src.files :
       src' = Dir(CopyInto(src.files, n, archive.files[n]))
  /\ UNCHANGED <<ipc, resolved, regFile, reg0, metaSize, archive, zip,
                 tmpExists, copied, final, final0, err,
                 returned, lockVars, libVars>>

\* populate: unzip fails
ExtractFail ==
  /\ ipc = "extract"
  /\ ipc' = "catch"
  /\ err' = "extract"
  /\ UNCHANGED <<resolved, regFile, reg0, metaSize, archive, zip, tmpExists,
                 src, copied, final, final0,
                 returned, lockVars, libVars>>

\* populate (cli.js 196-217): unzip is done; find the .app bundle or throw
ExtractDone ==
  /\ ipc = "extract"
  /\ DOMAIN src.files = DOMAIN archive.files
  /\ IF archive.app
       THEN ipc' = "move" /\ err' = err
       ELSE ipc' = "catch" /\ err' = "nobundle"
  /\ UNCHANGED <<resolved, regFile, reg0, metaSize, archive, zip, tmpExists,
                 src, copied, final, final0,
                 returned, lockVars, libVars>>

\* the source path is no more (renamed away, or removed by fs.rm); when
\* populate returned the temporary directory itself, that is the directory
SourceGone ==
  /\ src' = NoPath
  /\ tmpExists' = IF returned = "tmpDir" THEN FALSE ELSE tmpExists

\* fs.rename can put a directory only where there is none or an empty one
RenamePossible == ~final.exists \/ DOMAIN final.files = {}

\* moveDirectory 249-251: rename(source, dest), which the file system may
\* refuse (another device, a directory that is not empty)
Rename ==
  /\ ipc = "move"
  /\ \/ /\ RenamePossible
        /\ final' = Dir(src.files)
        /\ SourceGone
        /\ ipc' = "cleanup"
     \/ /\ ipc' = "copy"
        /\ UNCHANGED <<final, src, tmpExists>>
  /\ UNCHANGED <<resolved, regFile, reg0, metaSize, archive, zip,
                 copied, final0, err,
                 returned, lockVars, libVars>>

\* moveDirectory 254: fs.cp copies one more file into dest
CopyFile ==
  /\ ipc = "copy"
  /\ \E n \in DOMAIN src.files \ copied :
       /\ final' = Dir(CopyInto(final.files, n, src.files[n]))
       /\ copied' = copied \cup {n}
  /\ UNCHANGED <<ipc, resolved, regFile, reg0, metaSize, archive, zip,
                 tmpExists, src, final0, err,
                 returned, lockVars, libVars>>

\* moveDirectory 254: fs.cp fails
CopyFail ==
  /\ ipc = "copy"
  /\ ipc' = "catch"
  /\ err' = "move"
  /\ UNCHANGED <<resolved, regFile, reg0, metaSize, archive, zip, tmpExists,
                 src, copied, final, final0,
                 returned, lockVars, libVars>>

\* moveDirectory 254-255: fs.cp is done (dest exists), then rm the source
CopyDone ==
  /\ ipc = "copy"
  /\ copied = DOMAIN src.files
  /\ final' = Dir(final.files)
  /\ SourceGone
  /\ ipc' = "cleanup"
  /\ UNCHANGED <<resolved, regFile, reg0, metaSize, archive, zip,
                 copied, final0, err,
                 returned, lockVars, libVars>>

\* cleanupTempDirectory
CleanupTempDirectory ==
  /\ tmpExists' = FALSE
  /\ src' = NoPath

\* a success path that returns without removing the temporary directory
ReturnAfterMove ==
  /\ ipc = "cleanup"
  /\ ipc' = "unlink"
  /\ UNCHANGED <<resolved, regFile, reg0, metaSize, archive, zip, copied,
                 tmpExists, src, final, final0, err,
                 returned, lockVars, libVars>>

\* atomicInstall 177-178: remove the temporary directory after the move
CleanupAfterMove ==
  /\ ipc = "cleanup"
  /\ CleanupTempDirectory
  /\ ipc' = "unlink"
  /\ UNCHANGED <<resolved, regFile, reg0, metaSize, archive, zip, copied,
                 final, final0, err,
                 returned, lockVars, libVars>>

\* a catch block that rethrows without removing the temporary directory
CatchNoCleanup ==
  /\ ipc = "catch"
  /\ ipc' = "failed"
  /\ UNCHANGED <<resolved, regFile, reg0, metaSize, archive, zip, tmpExists,
                 src, copied, final, final0, err,
                 returned, lockVars, libVars>>

\* atomicInstall 180-186: remove the temporary directory, rethrow the error
CatchCleanup ==
  /\ ipc = "catch"
  /\ IF tmpExists THEN CleanupTempDirectory ELSE UNCHANGED <<tmpExists, src>>
  /\ ipc' = "failed"
  /\ UNCHANGED <<resolved, regFile, reg0, metaSize, archive, zip, copied,
                 final, final0, err,
                 returned, lockVars, libVars>>

\* cli.js 220-221: unlink the downloaded archive
UnlinkZip ==
  /\ ipc = "unlink"
  /\ zip' = [exists |-> FALSE, size |-> 0]
  /\ ipc' = "verify"
  /\ UNCHANGED <<resolved, regFile, reg0, metaSize, archive, tmpExists, src,
                 copied, final, final0, err,
                 returned, lockVars, libVars>>

\* cli.js 223-228: verifyAppBundle(finalPath)
Verify ==
  /\ ipc = "verify"
  /\ IF VerifyAppBundle(final)
       THEN ipc' = "register" /\ err' = err
       ELSE ipc' = "failed" /\ err' = "verify"
  /\ UNCHANGED <<resolved, regFile, reg0, metaSize, archive, zip, tmpExists,
                 src, copied, final, final0,
                 returned, lockVars, libVars>>

\* cli.js 230-237: what the command passes to addInstalledVersion
VersionInfo ==
  [version |-> InstallKey(resolved), revision |-> resolved.revision,
   path |-> FinalPath(InstallKey(resolved)),
   size |-> CalculateDirectorySize(final.files)]

\* cli.js 230-240: the size of the installation, then the registry record
Register ==
  /\ ipc = "register"
  /\ \E t \in 1..MaxStamp :
       regFile' = AddInstalledVersion(regFile, VersionInfo, t)
  /\ ipc' = "installed"
  /\ UNCHANGED <<resolved, reg0, metaSize, archive, zip, tmpExists, src,
                 copied, final, final0, err,
                 returned, lockVars, libVars>>

InstallNext ==
  \/ Resolve
  \/ CheckInstalled
  \/ FetchMetadata
  \/ DownloadOpen
  \/ DownloadChunk
  \/ DownloadEnd
  \/ DownloadFail
  \/ MakeTmpDir
  \/ ExtractFile
  \/ ExtractFail
  \/ ExtractDone
  \/ Rename
  \/ CopyFile
  \/ CopyFail
  \/ CopyDone
  \/ CleanupAfterMove
  \/ CatchCleanup
  \/ UnlinkZip
  \/ Verify
  \/ Register

\* the process that runs the command
Cmd == 1

\* cli.js 141-243: the steps of the command are the body of withLock
InstallInLock == pc[Cmd] = "body" /\ InstallNext

\* cli.js 141, 162, 243, withLock 48-50: the callback returns, or throws
\* the error the command failed with
CommandReturn ==
  /\ pc[Cmd] = "body"
  /\ ipc \in {"already", "installed", "failed"}
  /\ fnResult' = [fnResult EXCEPT ![Cmd] = IF ipc = "failed" THEN "err"
                                                             ELSE "ok"]
  /\ pc' = [pc EXCEPT ![Cmd] = "release"]
  /\ timeoutOpt' = [timeoutOpt EXCEPT ![Cmd] = 0]
  /\ attempts' = [attempts EXCEPT ![Cmd] = 0]
  /\ waited' = [waited EXCEPT ![Cmd] = 0]
  /\ tookOver' = [tookOver EXCEPT ![Cmd] = FALSE]
  /\ UNCHANGED <<now, lockFile, lockDir, wakeAt, lastUpdate, released,
                 relErr,
                 installVars, libVars>>

\* the install command from withLock to the release of the lock
CommandNext ==
  \/ AcquireStart(Cmd)
  \/ WriteLockFile(Cmd)
  \/ Mkdir(Cmd)
  \/ InstallInLock
  \/ CommandReturn
  \/ Release(Cmd)

\* the install command at rest, for the specification of the lock manager
InstallIdle ==
  /\ ipc = "start"
  /\ resolved = [version |-> "", revision |-> ""]
  /\ regFile = NoRegistry
  /\ reg0 = NoRegistry
  /\ metaSize = 0
  /\ archive = [app |-> FALSE, files |-> EmptyFiles]
  /\ zip = [exists |-> FALSE, size |-> 0]
  /\ tmpExists = FALSE
  /\ src = NoPath
  /\ copied = {}
  /\ final = NoPath
  /\ final0 = NoPath
  /\ err = "none"
  /\ returned = "appPath"

\* ---------------------------------------------------------------- retryFetch

\* options.retries of the call
RetryOpts == 0..MaxRetries

\* the errors fetchFn can throw
ErrorIds == 1..NumErrors

NoResult == [kind |-> "none", val |-> 0]

\* a loop that stops one attempt early
LoopStopsEarly(a, n) == a < n

\* for (...; attempt <= retries; ...)
LoopContinues(a, n) == a <= n

\* a wait after every failure, the last one included
SleepsAlways(a, n) == TRUE

\* if (attempt < retries)
SleepsBeforeNext(a, n) == a < n

\* delay * Math.pow(backoff, attempt)
WaitTime(a) == DefaultDelay * (DefaultBackoff ^ a)

\* where the loop goes with the counter at a
LoopAt(a, n) == IF LoopContinues(a, n) THEN "call" ELSE "exit"

RetryIdle ==
  /\ rpc = "idle"
  /\ retries = 0
  /\ failing = 0
  /\ attempt = 0
  /\ calls = 0
  /\ errors = <<>>
  /\ lastError = 0
  /\ sleeps = <<>>
  /\ result = NoResult

\* retryFetch(fetchFn, {retries}) with a fetchFn that fails its first
\* `failing` invocations
RetryFetchInit ==
  /\ retries \in RetryOpts
  /\ failing \in 0..(MaxRetries + 1)
  /\ rpc = LoopAt(0, retries)
  /\ attempt = 0
  /\ calls = 0
  /\ errors = <<>>
  /\ lastError = 0
  /\ sleeps = <<>>
  /\ result = NoResult

\* line 89: return await fetchFn(), fetchFn resolving with its invocation
\* number
FetchOk ==
  /\ rpc = "call"
  /\ calls >= failing
  /\ calls' = calls + 1
  /\ result' = [kind |-> "value", val |-> calls + 1]
  /\ rpc' = "returned"
  /\ UNCHANGED <<retries, failing, attempt, errors, lastError, sleeps,
                 lockVars, installVars, mappingVars, checkVars, extVars>>

\* lines 89-96: fetchFn throws e; lastError = e; wait unless this was the
\* last attempt
FetchFail ==
  /\ rpc = "call"
  /\ calls < failing
  /\ \E e \in ErrorIds :
       /\ calls' = calls + 1
       /\ errors' = Append(errors, e)
       /\ lastError' = e
  /\ IF SleepsBeforeNext(attempt, retries)
       THEN /\ sleeps' = Append(sleeps, WaitTime(attempt))
            /\ rpc' = "sleep"
            /\ attempt' = attempt
       ELSE /\ sleeps' = sleeps
            /\ attempt' = attempt + 1
            /\ rpc' = LoopAt(attempt + 1, retries)
  /\ UNCHANGED <<retries, failing, result, lockVars, installVars,
                 mappingVars, checkVars, extVars>>

\* the timer of line 95 fires; attempt++
WaitDone ==
  /\ rpc = "sleep"
  /\ attempt' = attempt + 1
  /\ rpc' = LoopAt(attempt + 1, retries)
  /\ UNCHANGED <<retries, failing, calls, errors, lastError, sleeps, result,
                 lockVars, installVars, mappingVars, checkVars, extVars>>

\* line 100: throw lastError
ThrowLastError ==
  /\ rpc = "exit"
  /\ result' = [kind |-> "error", val |-> lastError]
  /\ rpc' = "threw"
  /\ UNCHANGED <<retries, failing, attempt, calls, errors, lastError, sleeps,
                 lockVars, installVars, mappingVars, checkVars, extVars>>

RetryNext == FetchOk \/ FetchFail \/ WaitDone \/ ThrowLastError

\* ------------------------------------------------------------- lib/mapping.js

\* a string is the sequence of its characters; null is Null
DigitChars == <<"0", "1", "2", "3", "4", "5", "6", "7", "8", "9">>

Null == <<"null">>

IsDigit(c) == \E i \in DOMAIN DigitChars : DigitChars[i] = c

DigitVal(c) == (CHOOSE i \in DOMAIN DigitChars : DigitChars[i] = c) - 1

\* Number(s) and parseInt(s) of a run of digits; Number("") is 0
RECURSIVE ToNumber(_)
ToNumber(s) ==
  IF s = <<>> THEN 0
  ELSE 10 * ToNumber(SubSeq(s, 1, Len(s) - 1)) + DigitVal(s[Len(s)])

\* String(n)
RECURSIVE StringOf(_)
StringOf(n) ==
  IF n < 10 THEN <<DigitChars[n + 1]>>
  ELSE StringOf(n \div 10) \o <<DigitChars[(n % 10) + 1]>>

\* s.split('.')
RECURSIVE Split(_)
Split(s) ==
  IF \A i \in DOMAIN s : s[i] # "." THEN <<s>>
  ELSE LET i == CHOOSE k \in DOMAIN s :
                  s[k] = "." /\ \A j \in 1..(k - 1) : s[j] # "."
       IN <<SubSeq(s, 1, i - 1)>> \o Split(SubSeq(s, i + 1, Len(s)))

\* s.includes(q)
Includes(str, q) ==
  \E k \in 1..(Len(str) + 1) :
    k + Len(q) - 1 <= Len(str) /\ SubSeq(str, k, k + Len(q) - 1) = q

\* s.startsWith(q)
StartsWith(str, q) == Len(q) <= Len(str) /\ SubSeq(str, 1, Len(q)) = q

\* !v
Falsy(v) == v = Null \/ v = <<>>

\* parts[i] || 0, i counted from 1
PartAt(parts, i) == IF i <= Len(parts) THEN ToNumber(parts[i]) ELSE 0

\* a comparison that takes the first character of each component only
CompareFirstChars(a, b) ==
  LET p1 == Split(a)
      p2 == Split(b)
      c1(i) == IF i <= Len(p1) /\ p1[i] # <<>> THEN DigitVal(p1[i][1]) ELSE 0
      c2(i) == IF i <= Len(p2) /\ p2[i] # <<>> THEN DigitVal(p2[i][1]) ELSE 0
      diff == {i \in 1..Max(Len(p1), Len(p2)) : c1(i) # c2(i)}
  IN IF diff = {} THEN 0
     ELSE LET i == CHOOSE k \in diff : \A j \in diff : k <= j
          IN IF c1(i) > c2(i) THEN 1 ELSE -1

\* compareVersions
CompareVersions(a, b) ==
  IF Falsy(a) THEN -1
  ELSE IF Falsy(b) THEN 1
  ELSE LET parts1 == Split(a)
           parts2 == Split(b)
           maxLength == Max(Len(parts1), Len(parts2))
           diff == {i \in 1..maxLength : PartAt(parts1, i) # PartAt(parts2, i)}
       IN IF diff = {} THEN 0
          ELSE LET i == CHOOSE k \in diff : \A j \in diff : k <= j
               IN IF PartAt(parts1, i) > PartAt(parts2, i) THEN 1 ELSE -1

\* what positionMap.get(key) returns when the key is not in the map
NoInfo == [found |-> FALSE, version |-> Null, channel |-> Null]

\* positionMap.get(key): the first release, in the order of allReleases,
\* whose position is truthy and prints as the key
PositionMapGet(rels, key) ==
  LET hits == {i \in DOMAIN rels :
                 rels[i].position # 0 /\ StringOf(rels[i].position) = key}
  IN IF hits = {} THEN NoInfo
     ELSE LET i == CHOOSE k \in hits : \A j \in hits : k <= j
          IN [found |-> TRUE, version |-> rels[i].version,
              channel |-> rels[i].channel]

\* positionMap.get(String(n)); String of a negative number is no key
GetAt(rels, n) == IF n < 0 THEN NoInfo ELSE PositionMapGet(rels, StringOf(n))

\* a probe that tries the lower position first
ProbeBelowFirst(rels, revNum, offset) ==
  IF GetAt(rels, revNum - offset) # NoInfo
    THEN GetAt(rels, revNum - offset)
    ELSE GetAt(rels, revNum + offset)

\* positionMap.get(String(revNum + offset)) || positionMap.get(String(revNum - offset))
ProbeAt(rels, revNum, offset) ==
  IF GetAt(rels, revNum + offset) # NoInfo
    THEN GetAt(rels, revNum + offset)
    ELSE GetAt(rels, revNum - offset)

\* lines 366-374: the exact position, else the closest within the window
FindVersionInfo(rels, rev) ==
  IF PositionMapGet(rels, rev) # NoInfo THEN PositionMapGet(rels, rev)
  ELSE LET revNum == ToNumber(rev)
           hits == {o \in 1..ProbeWindow : ProbeAt(rels, revNum, o) # NoInfo}
       IN IF hits = {} THEN NoInfo
          ELSE ProbeAt(rels, revNum, CHOOSE o \in hits : \A j \in hits : o <= j)

\* lines 376-392: the catalog entry of a revision
CatalogEntry(rels, rev) ==
  LET versionInfo == FindVersionInfo(rels, rev)
  IN IF versionInfo # NoInfo
       THEN [version |-> versionInfo.version, revision |-> rev,
             channel |-> versionInfo.channel, hasVersion |-> TRUE]
       ELSE [version |-> Null, revision |-> rev,
             channel |-> Null, hasVersion |-> FALSE]

\* the comparator of line 396
VersionedOrder(a, b) == CompareVersions(b.version, a.version)

\* a comparator that sorts the revisions oldest first
OldestFirst(a, b) == ToNumber(a.revision) - ToNumber(b.revision)

\* the comparator of line 399
UnversionedOrder(a, b) == ToNumber(b.revision) - ToNumber(a.revision)

Order(byVersion, a, b) ==
  IF byVersion THEN VersionedOrder(a, b) ELSE UnversionedOrder(a, b)

\* Array.prototype.sort is stable: e goes behind every element that does
\* not sort after it
InsertSorted(sorted, e, byVersion) ==
  LET behind == {i \in DOMAIN sorted : Order(byVersion, sorted[i], e) <= 0}
      k == IF behind = {} THEN 0
           ELSE CHOOSE i \in behind : \A j \in behind : j <= i
  IN SubSeq(sorted, 1, k) \o <<e>> \o SubSeq(sorted, k + 1, Len(sorted))

RECURSIVE SortEntries(_, _)
SortEntries(entries, byVersion) ==
  IF entries = <<>> THEN <<>>
  ELSE InsertSorted(SortEntries(SubSeq(entries, 1, Len(entries) - 1), byVersion),
                    entries[Len(entries)], byVersion)

IsVersioned(e) == e.hasVersion

IsUnversioned(e) == ~e.hasVersion

\* buildAvailableVersions, from the revisions and the releases it fetched
BuildAvailableVersions(revs, rels) ==
  LET entries == [i \in DOMAIN revs |-> CatalogEntry(rels, revs[i])]
      versioned == SelectSeq(entries, IsVersioned)
      unversioned == SelectSeq(entries, IsUnversioned)
  IN SortEntries(versioned, TRUE) \o SortEntries(unversioned, FALSE)

\* the keywords of resolveVersion
Latest == <<"latest">>
Oldest == <<"oldest">>

\* null, as resolveVersion returns it
NoMatch == [version |-> Null, revision |-> Null, channel |-> Null,
            hasVersion |-> FALSE]

\* array.find(pred): the first element of those at the indexes `hits`
FirstAt(list, hits) ==
  IF hits = {} THEN NoMatch
  ELSE list[CHOOSE k \in hits : \A j \in hits : k <= j]

\* a resolver that tries the revision before the version
ResolveRevisionFirst(q, list) ==
  LET byVersion == {i \in DOMAIN list : list[i].version = q}
      byRevision == {i \in DOMAIN list : list[i].revision = q}
      byPrefix == {i \in DOMAIN list :
                     ~Falsy(list[i].version) /\ StartsWith(list[i].version, q)}
  IN IF byRevision # {} THEN FirstAt(list, byRevision)
     ELSE IF byVersion # {} THEN FirstAt(list, byVersion)
     ELSE FirstAt(list, byPrefix)

\* lines 425-437: exact version, else exact revision, else version prefix
ResolveQuery(q, list) ==
  LET byVersion == {i \in DOMAIN list : list[i].version = q}
      byRevision == {i \in DOMAIN list : list[i].revision = q}
      byPrefix == {i \in DOMAIN list :
                     ~Falsy(list[i].version) /\ StartsWith(list[i].version, q)}
  IN IF byVersion # {} THEN FirstAt(list, byVersion)
     ELSE IF byRevision # {} THEN FirstAt(list, byRevision)
     ELSE FirstAt(list, byPrefix)

\* a resolver whose 'latest' is the first entry, versioned or not
LatestIsFirst(list) == list[1]

\* lines 411-418
ResolveLatest(list) ==
  LET versioned == SelectSeq(list, IsVersioned)
  IN IF Len(versioned) > 0 THEN versioned[1] ELSE list[1]

\* lines 420-423
ResolveOldest(list) == list[Len(list)]

\* resolveVersion
ResolveVersion(q, list) ==
  IF Len(list) = 0 THEN NoMatch
  ELSE IF q = Latest THEN ResolveLatest(list)
  ELSE IF q = Oldest THEN ResolveOldest(list)
  ELSE ResolveQuery(q, list)

\* lines 294-306: the Map keyed by String(position); a later mapping of the
\* same position overwrites an earlier one
RECURSIVE VersionMapGet(_, _)
VersionMapGet(mappings, key) ==
  IF mappings = <<>> THEN NoInfo
  ELSE LET last == mappings[Len(mappings)]
       IN IF last.position # 0 /\ StringOf(last.position) = key
          THEN [found |-> TRUE, version |-> last.version,
                channel |-> last.channel]
          ELSE VersionMapGet(SubSeq(mappings, 1, Len(mappings) - 1), key)

\* lines 309-317: the entry made of one revision
MergedEntry(rev, mappings) ==
  LET versionInfo == VersionMapGet(mappings, rev)
  IN [revision |-> rev,
      version |-> IF versionInfo.found /\ ~Falsy(versionInfo.version)
                  THEN versionInfo.version ELSE Null,
      channel |-> IF versionInfo.found /\ ~Falsy(versionInfo.channel)
                  THEN versionInfo.channel ELSE Null]

HasMergedVersion(item) == item.version # Null

\* mergeRevisionsWithVersions(revisions, versionMappings)
MergeRevisionsWithVersions(revs, mappings) ==
  SelectSeq([i \in DOMAIN revs |-> MergedEntry(revs[i], mappings)],
            HasMergedVersion)

\* ---- the inputs the functions of lib/mapping.js are applied to

SeqsUpTo(S, n) == UNION {[1..k -> S] : k \in 0..n}

NoRepeat(seq) == \A i, j \in DOMAIN seq : seq[i] = seq[j] => i = j

VersionChars == {"0", "1", "9", "."}

\* valid dotted version strings: digits in every component
IsVersionString(str) ==
  /\ str # <<>>
  /\ \A i \in DOMAIN Split(str) : Split(str)[i] # <<>>

Versions == {str \in SeqsUpTo(VersionChars, MaxVersionLen) : IsVersionString(str)}

\* the prefixes Mac_Arm/<digits>/ of the snapshot listing
RevisionPool == {<<"9">>, <<"9", "0">>, <<"1", "0", "0">>, <<"1", "9", "9">>}

RevisionListings == {l \in SeqsUpTo(RevisionPool, MaxRevisions) : NoRepeat(l)}

\* releases as fetch_releases lists them; the last has no branch position
ReleasePool ==
  {[version |-> <<"1", "0", ".", "0">>, channel |-> <<"Stable">>, position |-> 100],
   [version |-> <<"9", ".", "1">>, channel |-> <<"Beta">>, position |-> 95],
   [version |-> <<"9", ".", "1", ".", "0">>, channel |-> <<"Dev">>, position |-> 100],
   [version |-> <<"1">>, channel |-> <<"Canary">>, position |-> 0]}

ReleaseListings == SeqsUpTo(ReleasePool, MaxReleases)

\* revision listings given to mergeRevisionsWithVersions: a revision may
\* be listed more than once
ListedRevisions == SeqsUpTo(RevisionPool, MaxListed)

\* entries of a list given to resolveVersion: as the builder makes them,
\* and as the unit tests write them, with no hasVersion
EntryPool ==
  {[version |-> <<"1", "0", ".", "0">>, revision |-> <<"9", "1">>,
    channel |-> <<"Stable">>, hasVersion |-> TRUE],
   [version |-> <<"9", ".", "1">>, revision |-> <<"9", "0">>,
    channel |-> <<"Beta">>, hasVersion |-> TRUE],
   [version |-> <<"9", "1">>, revision |-> <<"1", "0", "0">>,
    channel |-> <<"Dev">>, hasVersion |-> TRUE],
   [version |-> Null, revision |-> <<"9">>,
    channel |-> Null, hasVersion |-> FALSE],
   [version |-> Null, revision |-> <<"1", "9", "9">>,
    channel |-> Null, hasVersion |-> FALSE],
   [version |-> <<"9", ".", "1">>, revision |-> <<"9", "0">>,
    channel |-> Null, hasVersion |-> FALSE],
   [version |-> <<"1", "0", ".", "0">>, revision |-> <<"9", "1">>,
    channel |-> Null, hasVersion |-> FALSE]}

Catalogs == SeqsUpTo(EntryPool, MaxCatalog)

Queries ==
  {Latest, Oldest, <<"9">>, <<"9", "1">>, <<"9", ".", "1">>,
   <<"1", "0", ".", "0">>, <<"1", "9", "9">>, <<"7">>, <<"0">>}

MappingIdle ==
  /\ mpc = "idle"
  /\ v1 = Null
  /\ v2 = Null
  /\ cmp = 0
  /\ revisions = <<>>
  /\ releases = <<>>
  /\ available = <<>>
  /\ query = Null
  /\ match = NoMatch

\* compareVersions(v1, v2)
Compare ==
  /\ mpc = "idle"
  /\ \E a, b \in Versions :
       /\ v1' = a
       /\ v2' = b
       /\ cmp' = CompareVersions(a, b)
  /\ mpc' = "compared"
  /\ UNCHANGED <<revisions, releases, available, query, match,
                 lockVars, installVars, retryVars, checkVars, extVars>>

\* buildAvailableVersions()
Build ==
  /\ mpc = "idle"
  /\ \E revs \in RevisionListings, rels \in ReleaseListings :
       /\ revisions' = revs
       /\ releases' = rels
       /\ available' = BuildAvailableVersions(revs, rels)
  /\ mpc' = "built"
  /\ UNCHANGED <<v1, v2, cmp, query, match,
                 lockVars, installVars, retryVars, checkVars, extVars>>

\* a caller's list: readAvailableVersions of the commands, or a list a
\* caller of the library made
ReadAvailable ==
  /\ mpc = "idle"
  /\ available' \in Catalogs
  /\ mpc' = "read"
  /\ UNCHANGED <<v1, v2, cmp, revisions, releases, query, match,
                 lockVars, installVars, retryVars, checkVars, extVars>>

\* resolveVersion(query, available)
ResolveStep ==
  /\ mpc \in {"built", "read"}
  /\ \E q \in Queries :
       /\ query' = q
       /\ match' = ResolveVersion(q, available)
  /\ mpc' = "resolved"
  /\ UNCHANGED <<v1, v2, cmp, revisions, releases, available,
                 lockVars, installVars, retryVars, checkVars, extVars>>

\* mergeRevisionsWithVersions(revisions, versionMappings)
Merge ==
  /\ mpc = "idle"
  /\ \E revs \in ListedRevisions, rels \in ReleaseListings :
       /\ revisions' = revs
       /\ releases' = rels
       /\ available' = MergeRevisionsWithVersions(revs, rels)
  /\ mpc' = "merged"
  /\ UNCHANGED <<v1, v2, cmp, query, match,
                 lockVars, installVars, retryVars, checkVars, extVars>>

MappingNext == Compare \/ Build \/ ReadAvailable \/ ResolveStep \/ Merge

\* ------------------------------------- validateDownload and verifyAppBundle

NoValidation == [kind |-> "none", valid |-> FALSE, size |-> 0, message |-> ""]

\* validateDownload: throws for a missing file and for a size that differs
\* from a truthy expectedSize, else returns the object {valid: true, size}
ValidateDownload(f, expected) ==
  IF ~f.exists
    THEN [kind |-> "error", valid |-> FALSE, size |-> 0,
          message |-> "Downloaded file does not exist"]
  ELSE IF expected # 0 /\ f.size # expected
    THEN [kind |-> "error", valid |-> FALSE, size |-> 0,
          message |-> "File size mismatch"]
  ELSE [kind |-> "object", valid |-> TRUE, size |-> f.size, message |-> ""]

\* what readdir(macOSDir) can list: a regular file with or without execute
\* permission, a directory, a symbolic link to nothing (fs.stat throws)
EntryKinds ==
  {[kind |-> "file", exec |-> TRUE], [kind |-> "file", exec |-> FALSE],
   [kind |-> "dir", exec |-> TRUE], [kind |-> "broken", exec |-> FALSE]}

NoBundle == [exists |-> FALSE, contents |-> FALSE, macos |-> FALSE,
             entries |-> <<>>]

\* the directories verifyAppBundle is given
Bundles ==
  {NoBundle,
   [NoBundle EXCEPT !.exists = TRUE],
   [NoBundle EXCEPT !.exists = TRUE, !.contents = TRUE]}
  \cup {[exists |-> TRUE, contents |-> TRUE, macos |-> TRUE, entries |-> l] :
          l \in SeqsUpTo(EntryKinds, MaxEntries)}

\* lines 190-204: the three existsSync tests
HasStructure(b) == b.exists /\ b.contents /\ b.macos

CheckIdle ==
  /\ vpc = "idle"
  /\ dlFile = [exists |-> FALSE, size |-> 0]
  /\ expectedSize = 0
  /\ validation = NoValidation
  /\ bundle = NoBundle
  /\ bundle0 = NoBundle
  /\ entryIdx = 0
  /\ verdict = "none"
  /\ runs = 0
  /\ firstRun = [verdict |-> "none", bundle |-> NoBundle]

\* validateDownload(filePath, {expectedSize})
Validate ==
  /\ vpc = "idle"
  /\ \E ex \in BOOLEAN, size \in 0..MaxZipSize, expected \in 0..MaxZipSize :
       /\ dlFile' = [exists |-> ex, size |-> IF ex THEN size ELSE 0]
       /\ expectedSize' = expected
       /\ validation' = ValidateDownload(dlFile', expected)
  /\ vpc' = "validated"
  /\ UNCHANGED <<bundle, bundle0, entryIdx, verdict, runs, firstRun,
                 lockVars, installVars, retryVars, mappingVars, extVars>>

\* verifyAppBundle, lines 190-204: false unless the structure is there
EnterVerify(b) ==
  /\ bundle' = b
  /\ IF HasStructure(b)
       THEN vpc' = "entries" /\ entryIdx' = 1 /\ verdict' = "none"
       ELSE vpc' = "verified" /\ entryIdx' = 0 /\ verdict' = "false"

VerifyStart ==
  /\ vpc = "idle"
  /\ \E b \in Bundles : EnterVerify(b) /\ bundle0' = b
  /\ runs' = 0
  /\ UNCHANGED <<dlFile, expectedSize, validation, firstRun,
                 lockVars, installVars, retryVars, mappingVars, extVars>>

\* lines 211, 217: fs.stat throws, the catch block ends the loop
StatThrows(k) == k.kind = "broken"

\* lines 209-216: stat the entry and chmod 0o755 a regular file
VerifyEntry ==
  /\ vpc = "entries"
  /\ entryIdx <= Len(bundle.entries)
  /\ IF StatThrows(bundle.entries[entryIdx])
       THEN entryIdx' = Len(bundle.entries) + 1 /\ bundle' = bundle
       ELSE /\ entryIdx' = entryIdx + 1
            /\ bundle' = IF bundle.entries[entryIdx].kind = "file"
                           THEN [bundle EXCEPT !.entries[entryIdx].exec = TRUE]
                           ELSE bundle
  /\ UNCHANGED <<vpc, dlFile, expectedSize, validation, verdict, runs,
                 firstRun, bundle0,
                 lockVars, installVars, retryVars, mappingVars, extVars>>

\* line 221: return true
VerifyReturn ==
  /\ vpc = "entries"
  /\ entryIdx > Len(bundle.entries)
  /\ verdict' = "true"
  /\ vpc' = "verified"
  /\ UNCHANGED <<dlFile, expectedSize, validation, bundle, entryIdx, runs,
                 firstRun, bundle0,
                 lockVars, installVars, retryVars, mappingVars, extVars>>

\* verifyAppBundle is called once more on the same path
VerifyAgain ==
  /\ vpc = "verified"
  /\ runs = 0
  /\ runs' = 1
  /\ firstRun' = [verdict |-> verdict, bundle |-> bundle]
  /\ EnterVerify(bundle)
  /\ UNCHANGED <<dlFile, expectedSize, validation, bundle0,
                 lockVars, installVars, retryVars, mappingVars, extVars>>

CheckNext ==
  Validate \/ VerifyStart \/ VerifyEntry \/ VerifyReturn \/ VerifyAgain

\* ------------------------------------------------------------------ isLocked

\* options.staleTimeout of the calls: the default and the one the tests pass
HeldOpts == {TestStaleTimeout, DefaultStaleTimeout}

\* a staleness test that finds no lock stale
NeverStaleFor(dir, t, opt) == FALSE

\* lockfile.check's staleness test: mtime < Date.now() - stale, with stale
\* raised to at least 2000
IsStaleFor(dir, t, opt) == dir.mtime < t - Max(opt, 2000)

HeldIdle ==
  /\ hpc = "idle"
  /\ hopt = 0
  /\ held = "none"

\* isLocked 56-58: read the options
IsLockedStart ==
  /\ hpc = "idle"
  /\ \E o \in HeldOpts : hopt' = o
  /\ hpc' = "exists"
  /\ held' = "none"
  /\ UNCHANGED <<lockVars, installVars, retryVars, mappingVars, checkVars,
                 notHeld>>

\* isLocked 60-62: existsSync(lockFile), false when there is no lock file
IsLockedExists ==
  /\ hpc = "exists"
  /\ IF lockFile.exists
       THEN hpc' = "check" /\ held' = held
       ELSE hpc' = "idle" /\ held' = "false"
  /\ UNCHANGED <<hopt,
                 lockVars, installVars, retryVars, mappingVars, checkVars,
                 notHeld>>

\* isLocked 64-73: lockfile.check stats the lock directory: false when there
\* is none, else whether it is not stale
IsLockedCheck ==
  /\ hpc = "check"
  /\ held' = IF lockDir.exists /\ ~IsStaleFor(lockDir, now, hopt)
               THEN "true" ELSE "false"
  /\ hpc' = "idle"
  /\ UNCHANGED <<hopt,
                 lockVars, installVars, retryVars, mappingVars, checkVars,
                 notHeld>>

\* the processes that use the lock while an observer calls isLocked
Lockers == {1, 2}

HeldNext ==
  \/ \E p \in Lockers : AcquireStart(p)
  \/ \E p \in Lockers : WriteLockFile(p)
  \/ \E p \in Lockers : Mkdir(p)
  \/ \E p \in Lockers : StatLock(p)
  \/ \E p \in Lockers : RemoveStale(p)
  \/ \E p \in Lockers : Mkdir0(p)
  \/ \E p \in Lockers : Retry(p)
  \/ \E p \in Lockers : UpdateLock(p)
  \/ \E p \in Lockers : FnEnd(p)
  \/ \E p \in Lockers : Release(p)
  \/ \E p \in Lockers : Crash(p)
  \/ \E p \in Lockers : NewProcess(p)
  \/ Advance
  \/ IsLockedStart
  \/ IsLockedExists
  \/ IsLockedCheck

\* ------------------------------------------- registry, a sequence of calls

\* the keys and the version infos the calls are made with
StoreKeys == {"91.0.4472.77", "93.0.4577.82", "882387", "911515"}
StoreInfos ==
  [version : StoreKeys, revision : {"882387", "911515"},
   path : {FinalPath("93.0.4577.82")}, size : {4}]

NoOp == [kind |-> "none", key |-> ""]

StoreIdle ==
  /\ store = NoRegistry
  /\ store0 = NoRegistry
  /\ lastOp = NoOp
  /\ ops = 0

StoreInit ==
  /\ store \in Registries
  /\ store0 = store
  /\ lastOp = NoOp
  /\ ops = 0

\* addInstalledVersion(chvmHome, versionInfo)
StoreAdd ==
  /\ ops < MaxOps
  /\ \E info \in StoreInfos, t \in 1..MaxStamp :
       /\ store' = AddInstalledVersion(store, info, t)
       /\ lastOp' = [kind |-> "add", key |-> info.version]
  /\ store0' = store
  /\ ops' = ops + 1
  /\ UNCHANGED <<lockVars, installVars, retryVars, mappingVars, checkVars,
                 notStore>>

\* removeInstalledVersion(chvmHome, version)
StoreRemove ==
  /\ ops < MaxOps
  /\ \E k \in StoreKeys :
       /\ store' = RemoveInstalledVersion(store, k)
       /\ lastOp' = [kind |-> "remove", key |-> k]
  /\ store0' = store
  /\ ops' = ops + 1
  /\ UNCHANGED <<lockVars, installVars, retryVars, mappingVars, checkVars,
                 notStore>>

StoreNext ==
  \/ StoreAdd
  \/ StoreRemove

\* ---------------------------------------------------------- uninstall command

\* the keys of the builds that may be installed: two versions, one revision
InstalledKeys == {"91.0.4472.77", "93.0.4577.82", "882387"}

\* the record of an installed build
RecordOf(k) ==
  [revision |-> IF k = "91.0.4472.77" THEN "870763"
                ELSE IF k = "93.0.4577.82" THEN "911515" ELSE k,
   path |-> FinalPath(k), installedAt |-> 1, size |-> 4]

\* the registry with the records of the keys in ks
RECURSIVE RegistryOf(_)
RegistryOf(ks) ==
  IF ks = {} THEN << >>
  ELSE LET k == CHOOSE x \in ks : TRUE
       IN SetProp(RegistryOf(ks \ {k}), k, RecordOf(k))

UninstallRegistries ==
  {NoRegistry} \cup {WriteInstalledVersions(RegistryOf(ks)) :
                       ks \in SUBSET InstalledKeys}

\* the arguments of the command: keys, and queries that are no key
UninstallQueries == InstalledKeys \cup {"93", "latest", "oldest"}

\* what resolveVersion may return: a catalog entry, or null
NoEntry == [version |-> "none", revision |-> "none"]

UninstallIdle ==
  /\ upc = "start"
  /\ uquery = ""
  /\ uentry = NoEntry
  /\ ukey = ""
  /\ ureg = NoRegistry
  /\ ureg0 = NoRegistry
  /\ apps = {}
  /\ profiles = {}
  /\ tmps = {}
  /\ uerr = "none"

UninstallInit ==
  /\ upc = "start"
  /\ uquery \in UninstallQueries
  /\ uentry = NoEntry
  /\ ukey = ""
  /\ ureg \in UninstallRegistries
  /\ ureg0 = ureg
  /\ apps \in SUBSET {FinalPath(k) : k \in InstalledKeys}
  /\ profiles \in SUBSET InstalledKeys
  /\ tmps \in SUBSET InstalledKeys
  /\ uerr = "none"

\* cli.js 351-365: the argument is a key of the registry, or the version of
\* the entry it resolves to is one, or the command fails
UninstallResolve ==
  /\ upc = "start"
  /\ LET installed == ReadInstalledVersions(ureg)
     IN IF uquery \in Keys(installed)
          THEN ukey' = uquery /\ upc' = "app" /\ uerr' = uerr
                 /\ uentry' = uentry
          ELSE \E e \in Entries \cup {NoEntry} :
                 /\ uentry' = e
                 /\ IF e # NoEntry /\ e.version \in Keys(installed)
                      THEN ukey' = e.version /\ upc' = "app" /\ uerr' = uerr
                      ELSE upc' = "failed" /\ uerr' = "notinstalled"
                             /\ ukey' = ukey
  /\ UNCHANGED <<uquery, ureg, ureg0, apps, profiles, tmps,
                 lockVars, installVars, retryVars, mappingVars, checkVars,
                 notUninstall>>

\* cli.js 367, versionInfo.path
RecordedPath == Get(ReadInstalledVersions(ureg), ukey).path

\* cli.js 370-374: remove the application directory if it exists
RemoveApp ==
  /\ upc = "app"
  /\ apps' = apps \ {RecordedPath}
  /\ upc' = "profile"
  /\ UNCHANGED <<uquery, uentry, ukey, ureg, ureg0, profiles, tmps, uerr,
                 lockVars, installVars, retryVars, mappingVars, checkVars,
                 notUninstall>>

\* cli.js 376-381: remove profiles/<key> if it exists
RemoveProfile ==
  /\ upc = "profile"
  /\ profiles' = profiles \ {ukey}
  /\ upc' = "tmp"
  /\ UNCHANGED <<uquery, uentry, ukey, ureg, ureg0, apps, tmps, uerr,
                 lockVars, installVars, retryVars, mappingVars, checkVars,
                 notUninstall>>

\* a command that leaves tmp/<key> where it is
KeepTmp ==
  /\ upc = "tmp"
  /\ upc' = "unregister"
  /\ UNCHANGED <<uquery, uentry, ukey, ureg, ureg0, apps, profiles, tmps, uerr,
                 lockVars, installVars, retryVars, mappingVars, checkVars,
                 notUninstall>>

\* cli.js 383-387: remove tmp/<key> if it exists
RemoveTmp ==
  /\ upc = "tmp"
  /\ tmps' = tmps \ {ukey}
  /\ upc' = "unregister"
  /\ UNCHANGED <<uquery, uentry, ukey, ureg, ureg0, apps, profiles, uerr,
                 lockVars, installVars, retryVars, mappingVars, checkVars,
                 notUninstall>>

\* cli.js 372, 379, 386: fs.rm fails on a directory that exists
RemoveFail ==
  /\ \/ upc = "app" /\ RecordedPath \in apps
     \/ upc = "profile" /\ ukey \in profiles
     \/ upc = "tmp" /\ ukey \in tmps
  /\ upc' = "failed"
  /\ uerr' = "rm"
  /\ UNCHANGED <<uquery, uentry, ukey, ureg, ureg0, apps, profiles, tmps,
                 lockVars, installVars, retryVars, mappingVars, checkVars,
                 notUninstall>>

\* cli.js 389-390: removeInstalledVersion(chvmHome, versionToUninstall)
Unregister ==
  /\ upc = "unregister"
  /\ ureg' = RemoveInstalledVersion(ureg, ukey)
  /\ upc' = "done"
  /\ UNCHANGED <<uquery, uentry, ukey, ureg0, apps, profiles, tmps, uerr,
                 lockVars, installVars, retryVars, mappingVars, checkVars,
                 notUninstall>>

UninstallSteps ==
  \/ UninstallResolve
  \/ RemoveApp
  \/ RemoveProfile
  \/ RemoveTmp
  \/ RemoveFail
  \/ Unregister

\* cli.js 350-393: the steps of the command are the body of withLock
UninstallInLock == pc[Cmd] = "body" /\ UninstallSteps

\* cli.js 350, 393, withLock 48-50: the callback returns, or throws the
\* error the command failed with
UninstallReturn ==
  /\ pc[Cmd] = "body"
  /\ upc \in {"done", "failed"}
  /\ fnResult' = [fnResult EXCEPT ![Cmd] = IF upc = "failed" THEN "err"
                                                             ELSE "ok"]
  /\ pc' = [pc EXCEPT ![Cmd] = "release"]
  /\ timeoutOpt' = [timeoutOpt EXCEPT ![Cmd] = 0]
  /\ attempts' = [attempts EXCEPT ![Cmd] = 0]
  /\ waited' = [waited EXCEPT ![Cmd] = 0]
  /\ tookOver' = [tookOver EXCEPT ![Cmd] = FALSE]
  /\ UNCHANGED <<now, lockFile, lockDir, wakeAt, lastUpdate, released,
                 relErr,
                 installVars, libVars>>

\* the uninstall command from withLock to the release of the lock
UninstallNext ==
  \/ AcquireStart(Cmd)
  \/ WriteLockFile(Cmd)
  \/ Mkdir(Cmd)
  \/ UninstallInLock
  \/ UninstallReturn
  \/ Release(Cmd)

\* ------------------------------------------------------------- update command

\* JSON.stringify(data, null, 2) of a catalog: the entries in order, each as
\* the list of its values
StringifyCatalog(list) ==
  [i \in DOMAIN list |->
     <<list[i].version, list[i].revision, list[i].channel, list[i].hasVersion>>]

\* JSON.parse(content) of a catalog
ParseCatalog(text) ==
  [i \in DOMAIN text |->
     [version |-> text[i][1], revision |-> text[i][2], channel |-> text[i][3],
      hasVersion |-> text[i][4]]]

\* available.json: absent, or its text
NoCatalog == [exists |-> FALSE, text |-> << >>]

\* readAvailableVersions
ReadAvailableVersions(file) ==
  IF ~file.exists THEN << >> ELSE ParseCatalog(file.text)

\* writeAvailableVersions
WriteAvailableVersions(data) ==
  [exists |-> TRUE, text |-> StringifyCatalog(data)]

\* an entry of a catalog built before: a revision no longer listed
OldEntry ==
  [version |-> Null, revision |-> <<"7">>, channel |-> Null,
   hasVersion |-> FALSE]

PrevCatalogs ==
  {NoCatalog, WriteAvailableVersions(<< >>), WriteAvailableVersions(<<OldEntry>>)}

\* the prefixes one page of the snapshot listing holds
PageListings(n) ==
  IF n = 0 THEN {<< >>, <<<<"9", "0">>>>, <<<<"1", "0", "0">>, <<"9">>>>}
  ELSE {<< >>, <<<<"1", "9", "9">>>>}

\* the channels, in the order of the Promise.all of line 329
ChannelNames == <<<<"Stable">>, <<"Beta">>, <<"Dev">>, <<"Canary">>>>
Channels == DOMAIN ChannelNames

\* the releases fetch_releases has, and those of one channel
ReleaseList ==
  <<[version |-> <<"1", "0", ".", "0">>, channel |-> <<"Stable">>, position |-> 100],
    [version |-> <<"9", ".", "1">>, channel |-> <<"Beta">>, position |-> 95],
    [version |-> <<"9", ".", "1", ".", "0">>, channel |-> <<"Dev">>, position |-> 100],
    [version |-> <<"9", ".", "0">>, channel |-> <<"Canary">>, position |-> 85],
    [version |-> <<"1">>, channel |-> <<"Canary">>, position |-> 0]>>
ChannelListing(c) ==
  SelectSeq(ReleaseList, LAMBDA r : r.channel = ChannelNames[c])

\* how one fetchVersionMapping ends: it throws, or returns no release, or
\* the releases of its channel
Outcomes == {"fail", "empty", "some"}

\* fetchVersionMapping({channel}).catch(() => [])
CaughtListing(c, outcome) ==
  IF outcome = "some" THEN ChannelListing(c) ELSE << >>

UpdateIdle ==
  /\ xpc = "start"
  /\ pageNo = 0
  /\ xrevs = << >>
  /\ chans = [c \in Channels |-> "none"]
  /\ xrels = << >>
  /\ xbuilt = << >>
  /\ avail = NoCatalog
  /\ avail0 = NoCatalog
  /\ xerr = "none"

UpdateInit ==
  /\ xpc = "start"
  /\ pageNo = 0
  /\ xrevs = << >>
  /\ chans = [c \in Channels |-> "none"]
  /\ xrels = << >>
  /\ xbuilt = << >>
  /\ avail \in PrevCatalogs
  /\ avail0 = avail
  /\ xerr = "none"

\* cli.js 99-108: the command calls buildAvailableVersions
UpdateStart ==
  /\ xpc = "start"
  /\ xpc' = "revisions"
  /\ UNCHANGED <<pageNo, xrevs, chans, xrels, xbuilt, avail, avail0, xerr,
                 lockVars, installVars, retryVars, mappingVars, checkVars,
                 notUpdate>>

\* fetchRevisions 216-251: one page of the listing; its prefixes are
\* appended, and the loop goes on while there is a nextPageToken
FetchPage ==
  /\ xpc = "revisions"
  /\ \E page \in PageListings(pageNo) : xrevs' = xrevs \o page
  /\ pageNo' = pageNo + 1
  /\ \/ pageNo + 1 < MaxPages /\ xpc' = "revisions"
     \/ xpc' = "channels"
  /\ UNCHANGED <<chans, xrels, xbuilt, avail, avail0, xerr,
                 lockVars, installVars, retryVars, mappingVars, checkVars,
                 notUpdate>>

\* fetchRevisions 227-231, cli.js 116-122: the fetch of a page fails;
\* buildAvailableVersions rejects and the command exits
FetchPageFail ==
  /\ xpc = "revisions"
  /\ xpc' = "failed"
  /\ xerr' = "revisions"
  /\ UNCHANGED <<pageNo, xrevs, chans, xrels, xbuilt, avail, avail0,
                 lockVars, installVars, retryVars, mappingVars, checkVars,
                 notUpdate>>

\* the releases of the channels, in order, from the channel c on
RECURSIVE AllReleases(_, _)
AllReleases(outcome, c) ==
  IF c > Len(ChannelNames) THEN << >>
  ELSE CaughtListing(c, outcome[c]) \o AllReleases(outcome, c + 1)

\* a build that rejects when the fetch of a channel fails
FetchChannelsStrict ==
  /\ xpc = "channels"
  /\ \E outcome \in [Channels -> Outcomes] :
       /\ chans' = outcome
       /\ IF \E c \in Channels : outcome[c] = "fail"
            THEN xpc' = "failed" /\ xerr' = "channels" /\ xrels' = xrels
            ELSE xpc' = "build" /\ xerr' = xerr
                   /\ xrels' = AllReleases(outcome, 1)
  /\ UNCHANGED <<pageNo, xrevs, xbuilt, avail, avail0,
                 lockVars, installVars, retryVars, mappingVars, checkVars,
                 notUpdate>>

\* buildAvailableVersions 328-336: the four fetches, each with its catch
FetchChannels ==
  /\ xpc = "channels"
  /\ \E outcome \in [Channels -> Outcomes] :
       /\ chans' = outcome
       /\ xrels' = AllReleases(outcome, 1)
  /\ xpc' = "build"
  /\ UNCHANGED <<pageNo, xrevs, xbuilt, avail, avail0, xerr,
                 lockVars, installVars, retryVars, mappingVars, checkVars,
                 notUpdate>>

\* buildAvailableVersions 338-402: the catalog of the revisions
UpdateBuild ==
  /\ xpc = "build"
  /\ xbuilt' = BuildAvailableVersions(xrevs, xrels)
  /\ xpc' = "write"
  /\ UNCHANGED <<pageNo, xrevs, chans, xrels, avail, avail0, xerr,
                 lockVars, installVars, retryVars, mappingVars, checkVars,
                 notUpdate>>

\* cli.js 110-115: an empty catalog is reported and not written, any other
\* is written
UpdateWrite ==
  /\ xpc = "write"
  /\ IF Len(xbuilt) = 0
       THEN xpc' = "warned" /\ avail' = avail
       ELSE xpc' = "updated" /\ avail' = WriteAvailableVersions(xbuilt)
  /\ UNCHANGED <<pageNo, xrevs, chans, xrels, xbuilt, avail0, xerr,
                 lockVars, installVars, retryVars, mappingVars, checkVars,
                 notUpdate>>

UpdateNext ==
  \/ UpdateStart
  \/ FetchPage
  \/ FetchPageFail
  \/ FetchChannels
  \/ UpdateBuild
  \/ UpdateWrite

\* ------------------------------------------------- reading the two JSON files

\* a text cut short inside its last member (a write that did not finish)
CutShort(text) ==
  [i \in DOMAIN text |->
     IF i < Len(text) THEN text[i]
     ELSE IF Len(text[i]) = 2 THEN <<text[i][1], SubSeq(text[i][2], 1, 2)>>
     ELSE SubSeq(text[i], 1, 2)]

\* the texts JSON.parse accepts: every member is whole
IsJson(kind, text) ==
  \A i \in DOMAIN text :
    IF kind = "registry" THEN Len(text[i]) = 2 /\ Len(text[i][2]) = 4
    ELSE Len(text[i]) = 4

\* the files the reads may find
CatalogFiles ==
  LET written == {WriteAvailableVersions(c) : c \in Catalogs}
  IN {NoCatalog} \cup written
       \cup {[f EXCEPT !.text = CutShort(@)] : f \in {w \in written : w.text # << >>}}
RegistryFiles ==
  UninstallRegistries
    \cup {[f EXCEPT !.text = CutShort(@)] :
            f \in {w \in UninstallRegistries : w.text # << >>}}

NoRead == [kind |-> "none", val |-> << >>]

\* a read that takes a text JSON.parse rejects for an empty one
ReadOrEmpty(kind, file) ==
  IF ~file.exists \/ ~IsJson(kind, file.text)
    THEN [kind |-> "value", val |-> << >>]
    ELSE [kind |-> "value",
          val |-> IF kind = "registry" THEN ReadInstalledVersions(file)
                  ELSE ReadAvailableVersions(file)]

\* readAvailableVersions / readInstalledVersions: empty when the file does
\* not exist, else JSON.parse of the content, whose SyntaxError is not caught
ReadJson(kind, file) ==
  IF ~file.exists THEN [kind |-> "value", val |-> << >>]
  ELSE IF ~IsJson(kind, file.text) THEN [kind |-> "SyntaxError", val |-> << >>]
  ELSE [kind |-> "value",
        val |-> IF kind = "registry" THEN ReadInstalledVersions(file)
                ELSE ReadAvailableVersions(file)]

ReadIdle ==
  /\ rdKind = "none"
  /\ rdFile = NoCatalog
  /\ rdResult = NoRead

ReadInit ==
  /\ rdKind \in {"catalog", "registry"}
  /\ rdFile \in IF rdKind = "catalog" THEN CatalogFiles ELSE RegistryFiles
  /\ rdResult = NoRead

\* readAvailableVersions(chvmHome)
ReadCatalogFile ==
  /\ rdKind = "catalog"
  /\ rdResult = NoRead
  /\ rdResult' = ReadJson("catalog", rdFile)
  /\ UNCHANGED <<rdKind, rdFile,
                 lockVars, installVars, retryVars, mappingVars, checkVars,
                 notRead>>

\* readInstalledVersions(chvmHome)
ReadRegistryFile ==
  /\ rdKind = "registry"
  /\ rdResult = NoRead
  /\ rdResult' = ReadJson("registry", rdFile)
  /\ UNCHANGED <<rdKind, rdFile,
                 lockVars, installVars, retryVars, mappingVars, checkVars,
                 notRead>>

ReadNext ==
  \/ ReadCatalogFile
  \/ ReadRegistryFile

\* -------------------------------------------------------- downloadWithProgress

\* Math.round((downloadedSize / totalSize) * 100)
Percentage(n, t) == (200 * n + t) \div (2 * t)

\* the object onProgress is called with
Progress(n, t) ==
  [downloaded |-> n, total |-> t, percentage |-> Percentage(n, t)]

\* obj[name] of a JavaScript object whose properties are numbers
Prop(obj, name) ==
  IF name \in DOMAIN obj THEN [type |-> "number", val |-> obj[name]]
  ELSE [type |-> "undefined", val |-> 0]

Number(n) == [type |-> "number", val |-> n]

ProgressIdle ==
  /\ dpc = "idle"
  /\ totalSize = 0
  /\ chunks = << >>
  /\ downloadedSize = 0
  /\ notes = << >>

\* downloadWithProgress 32-48: the response is ok and has a body; its
\* content-length is read, 0 if there is none
ProgressOpen ==
  /\ dpc = "idle"
  /\ \E t \in 0..MaxTotal : totalSize' = t
  /\ dpc' = "reading"
  /\ UNCHANGED <<chunks, downloadedSize, notes,
                 lockVars, installVars, retryVars, mappingVars, checkVars,
                 notProgress>>

\* downloadWithProgress 32-36, 43-45: the fetch fails, the response is not
\* ok or has no body
ProgressOpenFail ==
  /\ dpc = "idle"
  /\ dpc' = "failed"
  /\ UNCHANGED <<totalSize, chunks, downloadedSize, notes,
                 lockVars, installVars, retryVars, mappingVars, checkVars,
                 notProgress>>

\* downloadWithProgress 51-66: a chunk is read, written and counted, and
\* onProgress is called when the total is known
ProgressChunk ==
  /\ dpc = "reading"
  /\ Len(chunks) < MaxChunks
  /\ \E len \in 1..MaxChunkLen :
       /\ chunks' = Append(chunks, len)
       /\ downloadedSize' = downloadedSize + len
       /\ notes' = IF totalSize > 0
                     THEN Append(notes, Progress(downloadedSize + len, totalSize))
                     ELSE notes
  /\ UNCHANGED <<dpc, totalSize,
                 lockVars, installVars, retryVars, mappingVars, checkVars,
                 notProgress>>

\* downloadWithProgress 53, 68-74: the body is done, the file is flushed
ProgressEnd ==
  /\ dpc = "reading"
  /\ dpc' = "done"
  /\ UNCHANGED <<totalSize, chunks, downloadedSize, notes,
                 lockVars, installVars, retryVars, mappingVars, checkVars,
                 notProgress>>

\* downloadWithProgress 76-79: reader.read() or the file stream fails
ProgressFail ==
  /\ dpc = "reading"
  /\ dpc' = "failed"
  /\ UNCHANGED <<totalSize, chunks, downloadedSize, notes,
                 lockVars, installVars, retryVars, mappingVars, checkVars,
                 notProgress>>

ProgressNext ==
  \/ ProgressOpen
  \/ ProgressOpenFail
  \/ ProgressChunk
  \/ ProgressEnd
  \/ ProgressFail

ExtIdle == HeldIdle /\ StoreIdle /\ UninstallIdle /\ UpdateIdle /\ ReadIdle
             /\ ProgressIdle

LibIdle == RetryIdle /\ MappingIdle /\ CheckIdle /\ ExtIdle

\* ------------------------------------------------------------ specifications

\* processes running withLock on one base directory
Init == LockInit /\ InstallIdle /\ LibIdle

Next == LockNext

Spec == Init /\ [][Next]_vars

\* one run of the install command
InitInstall == InstallInit /\ LockInit /\ LibIdle

SpecInstall == InitInstall /\ [][InstallNext]_vars

\* one call of retryFetch
InitRetry ==
  RetryFetchInit /\ LockInit /\ InstallIdle /\ MappingIdle /\ CheckIdle
    /\ ExtIdle

SpecRetry == InitRetry /\ [][RetryNext]_vars

\* the functions of lib/mapping.js, each applied to its inputs
SpecMapping == Init /\ [][MappingNext]_vars

\* validateDownload and verifyAppBundle, each applied to its inputs
SpecCheck == Init /\ [][CheckNext]_vars

\* isLocked called while processes use the lock
SpecHeld == Init /\ [][HeldNext]_vars

\* calls of addInstalledVersion and removeInstalledVersion, one after another
InitStore == StoreInit /\ LockInit /\ InstallIdle /\ RetryIdle /\ MappingIdle
               /\ CheckIdle /\ HeldIdle /\ UninstallIdle /\ UpdateIdle /\ ReadIdle
               /\ ProgressIdle

SpecStore == InitStore /\ [][StoreNext]_vars

\* one run of the install command, the lock included
SpecCommand == InitInstall /\ [][CommandNext]_vars

\* one run of the uninstall command, the lock included
InitUninstall == UninstallInit /\ LockInit /\ InstallIdle /\ RetryIdle
                   /\ MappingIdle /\ CheckIdle /\ HeldIdle /\ StoreIdle
                   /\ UpdateIdle /\ ReadIdle /\ ProgressIdle

SpecUninstall == InitUninstall /\ [][UninstallNext]_vars

\* one run of the update command
InitUpdate == UpdateInit /\ LockInit /\ InstallIdle /\ RetryIdle /\ MappingIdle
                /\ CheckIdle /\ HeldIdle /\ StoreIdle /\ UninstallIdle
                /\ ReadIdle /\ ProgressIdle

SpecUpdate == InitUpdate /\ [][UpdateNext]_vars

\* one read of available.json or of installed.json
InitRead == ReadInit /\ LockInit /\ InstallIdle /\ RetryIdle /\ MappingIdle
              /\ CheckIdle /\ HeldIdle /\ StoreIdle /\ UninstallIdle
              /\ UpdateIdle /\ ProgressIdle

SpecRead == InitRead /\ [][ReadNext]_vars

\* one call of downloadWithProgress
SpecProgress == Init /\ [][ProgressNext]_vars

\* ------------------------------------------------------------------ claims

\* C1: at no time are two processes inside the locked body of withLock.
C1_MutualExclusion == Cardinality({p \in Procs : pc[p] = "body"}) <= 1

\* C2: when populate throws, atomicInstall rejects with that same error, the
\* temporary directory is gone and the final path is as it was before.
C2_PopulateFailureAtomic ==
  [][(ipc = "catch" /\ err \in {"extract", "nobundle"} /\ ipc' = "failed")
       => /\ err' = err
          /\ ~tmpExists'
          /\ ~src'.exists
          /\ final' = final0
    ]_vars

\* C2 witness: populate has thrown over a previous installation, the
\* temporary directory was removed and the installation is unchanged.
C2_Witness ==
  /\ ipc = "failed" /\ err = "extract"
  /\ ~tmpExists
  /\ final0 = Dir(OldInstall) /\ final = final0

\* C3: when the move to the final path fails, no temporary directory is left
\* and the final path is exactly as it was before the attempt.
C3_MoveFailureInvisible ==
  (ipc = "failed" /\ err = "move") => (~tmpExists /\ final = final0)

\* C4: the final path is as it was in every state before the move step
\* begins: while the temporary directory is made and while populate runs.
C4_FinalUntouchedBeforeMove ==
  ipc \in {"start", "check", "metadata", "download", "chunks", "mktmp",
           "extract", "move"}
    => final = final0

\* C4 witness: populate has unpacked the whole bundle and the previous
\* installation is still the one at the final path.
C4_Witness ==
  /\ ipc = "move"
  /\ src = Dir(GoodBundle)
  /\ final0 = Dir(OldInstall) /\ final = final0

\* C6: extraction begins only after the download has completed and the file
\* has the size the artifact metadata states, and the publish begins only
\* after the extraction has completed.
C6_PipelineOrdering ==
  /\ ipc \in {"extract", "move", "copy", "cleanup"}
       => zip.exists /\ zip.size = metaSize
  /\ ipc \in {"move", "copy"} => DOMAIN src.files = DOMAIN archive.files

\* C7: the install key is absent from the registry before the install and,
\* after addInstalledVersion, a registry read has it with the revision, the
\* path and the size that were passed, and an installedAt timestamp.
C7_RegistryRoundTrip ==
  ipc = "installed" =>
    LET key == InstallKey(resolved)
        reg == ReadInstalledVersions(regFile)
    IN /\ key \notin Keys(ReadInstalledVersions(reg0))
       /\ key \in Keys(reg)
       /\ Get(reg, key).revision = resolved.revision
       /\ Get(reg, key).path = FinalPath(key)
       /\ Get(reg, key).size = CalculateDirectorySize(final.files)
       /\ Get(reg, key).installedAt \in 1..MaxStamp

\* C7 witness: a build keyed by its revision was installed beside a record
\* that was already in the registry.
C7_Witness ==
  /\ ipc = "installed"
  /\ InstallKey(resolved) = "882387"
  /\ Keys(ReadInstalledVersions(regFile)) = {"882387", "91.0.4472.77"}

\* C5: withLock releases on every exit path: fn starts only at the step
\* that takes the lock directory for the caller and runs only under a handle
\* that is not yet released, withLock ends only with fn's outcome and the
\* handle released, and the release leaves no lock directory behind, so an
\* acquire that follows immediately succeeds.
C5_ReleaseOnEveryExit ==
  [][\A p \in Procs :
       /\ (pc[p] # "body" /\ pc'[p] = "body")
            => lockDir'.exists /\ lockDir'.owner = p
       /\ pc[p] = "body" => ~released[p]
       /\ pc'[p] = "done" =>
            /\ released'[p]
            /\ fnResult'[p] \in {"ok", "err"}
            /\ pc[p] = "release" => ~lockDir'.exists /\ fnResult'[p] = fnResult[p]
    ]_vars

\* C5 witness: withLock has rejected with fn's error and the lock is free.
C5_Witness ==
  \E p \in Procs :
    pc[p] = "done" /\ fnResult[p] = "err" /\ released[p] /\ ~lockDir.exists

\* C8: an acquire never backs off or fails against a lock directory whose
\* age exceeds staleTimeout: it removes the directory and takes the lock.
C8_StaleLockRecovered ==
  [][\A p \in Procs :
       /\ (pc[p] \notin {"wait", "failed"} /\ pc'[p] \in {"wait", "failed"})
            => lockDir.exists /\ now - lockDir.mtime <= DefaultStaleTimeout
       /\ (pc[p] = "stat" /\ lockDir.exists
              /\ now - lockDir.mtime > DefaultStaleTimeout)
            => pc'[p] \in {"stat", "rmdir"}
    ]_vars

\* C8 witness: a caller holds the lock it took over from a stale directory
\* on its first attempt, without any back-off sleep.
C8_Witness ==
  \E p \in Procs :
    /\ pc[p] = "body" /\ tookOver[p]
    /\ attempts[p] = 0 /\ waited[p] = 0
    /\ lockDir.exists /\ lockDir.owner = p

\* C9: an acquire that fails has slept, between its retries, no longer
\* than `timeout` in total.
C9_WaitWithinTimeout ==
  \A p \in Procs : pc[p] = "failed" => waited[p] <= timeoutOpt[p]

\* C10: a second release of the same handle completes without error.
C10_ReleaseIdempotent ==
  \A p \in Procs : released[p] => ~relErr[p]

C12_LastErrorRethrown ==
  rpc = "threw" =>
    /\ errors # <<>>
    /\ result = [kind |-> "error", val |-> errors[Len(errors)]]
    /\ Len(sleeps) = calls - 1

\* C12 witness: three attempts failed, the last with another error than the
\* earlier ones, and that error was thrown after two waits.
C12_Witness ==
  /\ rpc = "threw" /\ retries = 2
  /\ errors = <<1, 1, 2>> /\ result.val = 2
  /\ sleeps = <<WaitTime(0), WaitTime(1)>>

\* C13: in every catalog buildAvailableVersions returns, the entries with
\* a version precede those without, the former in non-increasing version
\* order under compareVersions, the latter in non-increasing order of the
\* revision read as an integer.
C13_CatalogInvariant ==
  mpc = "built" =>
    \A i, j \in DOMAIN available :
      i < j =>
        /\ available[j].hasVersion => available[i].hasVersion
        /\ (available[i].hasVersion /\ available[j].hasVersion)
             => CompareVersions(available[i].version, available[j].version) >= 0
        /\ (~available[i].hasVersion /\ ~available[j].hasVersion)
             => ToNumber(available[i].revision) >= ToNumber(available[j].revision)

\* C13 witness: a catalog built from the listing 9, 90, 100, 199: 10.0 sorts
\* before 9.1, and revision 199 before revision 9.
C13_Witness ==
  /\ mpc = "built"
  /\ revisions = <<(<<"9">>), <<"9", "0">>, <<"1", "0", "0">>, <<"1", "9", "9">>>>
  /\ [i \in DOMAIN available |-> available[i].revision]
       = <<(<<"1", "0", "0">>), <<"9", "0">>, <<"1", "9", "9">>, <<"9">>>>
  /\ available[1].version = <<"1", "0", ".", "0">>
  /\ available[2].version = <<"9", ".", "1">>

C15_ByVersion == {i \in DOMAIN available : available[i].version = query}

C15_ByRevision == {i \in DOMAIN available : available[i].revision = query}

C15_ByPrefix ==
  {i \in DOMAIN available :
     /\ available[i].version # Null
     /\ Len(query) <= Len(available[i].version)
     /\ \A k \in 1..Len(query) : available[i].version[k] = query[k]}

C15_FirstOf(hits) ==
  \E i \in hits : match = available[i] /\ \A j \in hits : i <= j

\* C15: for a query that is no keyword, an entry whose version equals the
\* query wins over one whose revision equals it, which wins over one whose
\* version starts with it; at each stage the first entry in list order is
\* returned, which on a built (version-descending) catalog is the newest of
\* the entries whose version starts with the query.
C15_Precedence ==
  (mpc = "resolved" /\ query \notin {Latest, Oldest}) =>
    /\ C15_ByVersion # {} => C15_FirstOf(C15_ByVersion)
    /\ (C15_ByVersion = {} /\ C15_ByRevision # {}) => C15_FirstOf(C15_ByRevision)
    /\ (C15_ByVersion = {} /\ C15_ByRevision = {} /\ C15_ByPrefix # {})
         => /\ C15_FirstOf(C15_ByPrefix)
            /\ available = BuildAvailableVersions(revisions, releases)
                 => \A i \in C15_ByPrefix :
                      CompareVersions(match.version, available[i].version) >= 0

\* C15 witness: the query 91 on a list whose first entry has revision 91 and
\* whose second entry has version 91 resolved to the second.
C15_Witness ==
  /\ mpc = "resolved" /\ query = <<"9", "1">>
  /\ Len(available) = 2
  /\ available[1].revision = <<"9", "1">>
  /\ available[2].version = <<"9", "1">>
  /\ match = available[2]

\* C16: on a non-empty list of entries that all carry a version, in any
\* order, 'latest' resolves to an entry with the highest version and
\* 'oldest' to one with the lowest.
C16_LatestIsHighest ==
  (/\ mpc = "resolved"
   /\ available # <<>>
   /\ \A i \in DOMAIN available : available[i].version # Null) =>
    /\ query = Latest
         => \A i \in DOMAIN available :
              CompareVersions(match.version, available[i].version) >= 0
    /\ query = Oldest
         => \A i \in DOMAIN available :
              CompareVersions(match.version, available[i].version) <= 0

\* C17: resolveVersion returns null exactly when the list is empty or the
\* query, not a keyword, matches no entry by version, revision or version
\* prefix; what it returns otherwise is an entry of the list; and the list
\* is as it was.
C17_NullIffNoMatch ==
  [][mpc' = "resolved" =>
       /\ available' = available
       /\ (match' = NoMatch) <=>
            \/ available' = <<>>
            \/ /\ query' \notin {Latest, Oldest}
               /\ C15_ByVersion' = {}
               /\ C15_ByRevision' = {}
               /\ C15_ByPrefix' = {}
       /\ match' # NoMatch => \E i \in DOMAIN available' : available'[i] = match'
    ]_vars

\* C17 witness: the query 7 on a list of three entries resolved to null.
C17_Witness ==
  /\ mpc = "resolved" /\ query = <<"7">>
  /\ Len(available) = 3
  /\ match = NoMatch

\* the components of a version as integers, padded with zeros to n
C18_Tuple(v, n) ==
  [i \in 1..n |-> IF i <= Len(Split(v)) THEN ToNumber(Split(v)[i]) ELSE 0]

\* the sign of the lexicographic comparison of two tuples of length n
C18_Sign(s, t, n) ==
  IF s = t THEN 0
  ELSE LET i == CHOOSE k \in 1..n : s[k] # t[k] /\ \A j \in 1..(k - 1) : s[j] = t[j]
       IN IF s[i] > t[i] THEN 1 ELSE -1

C18_Order(a, b) ==
  LET n == Max(Len(Split(a)), Len(Split(b)))
  IN C18_Sign(C18_Tuple(a, n), C18_Tuple(b, n), n)

\* the third versions transitivity is tried with
C18_Thirds ==
  {<<"0">>, <<"1">>, <<"9">>, <<"1", "0">>, <<"1", "9">>, <<"9", "1">>,
   <<"1", ".", "0">>, <<"0", ".", "9">>, <<"9", ".", "1">>, <<"1", ".", "1">>}

\* C18: compareVersions(a, b) is the sign of the comparison of the
\* zero-padded integer component tuples; so compare(a, b) = -compare(b, a),
\* it is transitive, 9 < 10, and 92.0 equals 92.0.0.0.
C18_TotalOrder ==
  /\ mpc = "compared" =>
       /\ cmp = C18_Order(v1, v2)
       /\ CompareVersions(v2, v1) = -cmp
       /\ \A c \in C18_Thirds :
            (cmp <= 0 /\ CompareVersions(v2, c) <= 0) => CompareVersions(v1, c) <= 0
  /\ CompareVersions(<<"9", "2", ".", "0">>,
                     <<"9", "2", ".", "0", ".", "0", ".", "0">>) = 0

\* C18 witness: 9 was compared with 10 and found lower.
C18_Witness ==
  /\ mpc = "compared"
  /\ v1 = <<"9">> /\ v2 = <<"1", "0">>
  /\ cmp = -1

\* C19: validateDownload yields a boolean and never raises: true when the
\* file exists and its size equals expectedSize, false when the size
\* differs, false when the file does not exist.
C19_ValidateIsBoolean ==
  vpc = "validated" =>
    /\ validation.kind = "boolean"
    /\ validation.valid <=> (dlFile.exists /\ dlFile.size = expectedSize)

\* C20: verifyAppBundle returns false when the path, Contents or
\* Contents/MacOS is missing; otherwise it returns true with every regular
\* file of Contents/MacOS executable; and a second call returns the same and
\* leaves the same permissions.
C20_VerifySetsPermissions ==
  vpc = "verified" =>
    /\ ~HasStructure(bundle) => verdict = "false"
    /\ HasStructure(bundle) =>
         /\ verdict = "true"
         /\ \A i \in DOMAIN bundle.entries :
              bundle.entries[i].kind = "file" => bundle.entries[i].exec
    /\ runs = 1 => verdict = firstRun.verdict /\ bundle = firstRun.bundle

\* C21: for a bundle whose Contents/MacOS exists but holds a regular file
\* without execute permission, verifyAppBundle returns false.
C21_RejectsNonExecutable ==
  (/\ vpc = "verified"
   /\ HasStructure(bundle0)
   /\ \E i \in DOMAIN bundle0.entries :
        bundle0.entries[i].kind = "file" /\ ~bundle0.entries[i].exec)
    => verdict = "false"

\* C22: when atomicInstall returns normally, finalPath exists and holds every
\* file populate produced at the path it returned, with populate's content,
\* and the temporary directory is gone, whether populate returned a path
\* inside the temporary directory or the temporary directory itself.
C22_SuccessPostState ==
  ipc = "unlink" =>
    /\ final.exists
    /\ \A n \in DOMAIN archive.files :
         n \in DOMAIN final.files /\ final.files[n] = archive.files[n]
    /\ ~tmpExists
    /\ ~src.exists

C22_Witness ==
  /\ ipc = "unlink"
  /\ returned = "tmpDir"
  /\ final.exists
  /\ final.files = archive.files
  /\ ~tmpExists

\* C23: a call of isLocked changes nothing of the lock, and when it returns
\* it reports true if a process holds the lock and the lock is not older
\* than staleTimeout, false if there is no lock (none was taken, or it was
\* released), and false if the lock is older than staleTimeout, the lock
\* file and the lock directory staying as they were.
C23_IsHeld ==
  [][/\ hpc' # hpc => UNCHANGED lockVars
     /\ (hpc # "idle" /\ hpc' = "idle") =>
          /\ ((\E p \in Procs : InWithLock(p) /\ lockDir.owner = p)
                /\ lockDir.exists /\ now - lockDir.mtime <= hopt)
               => held' = "true"
          /\ ~lockDir.exists => held' = "false"
          /\ (lockDir.exists /\ now - lockDir.mtime > hopt)
               => held' = "false" /\ lockDir'.exists /\ lockFile'.exists
    ]_vars

\* C23 witness: isLocked has reported false for a lock directory left by a
\* process that was killed, and the directory is still there.
C23_Witness ==
  /\ hpc = "idle"
  /\ held = "false"
  /\ lockDir.exists
  /\ lockFile.exists
  /\ now - lockDir.mtime > hopt

\* the record of key k in a registry file, or that there is none
C24_Record(file, k) ==
  LET obj == ReadInstalledVersions(file)
  IN IF k \in Keys(obj) THEN <<Get(obj, k)>> ELSE << >>

\* C24: after any sequence of calls of addInstalledVersion and
\* removeInstalledVersion, the last call has left the record of every key
\* other than its own as it was (present with the same fields, or absent),
\* and a removal of a key that was absent has left every record as it was.
C24_RegistryFrame ==
  lastOp.kind # "none" =>
    /\ \A k \in StoreKeys \ {lastOp.key} :
         C24_Record(store, k) = C24_Record(store0, k)
    /\ (lastOp.kind = "remove" /\ C24_Record(store0, lastOp.key) = << >>)
         => \A k \in StoreKeys :
              C24_Record(store, k) = C24_Record(store0, k)
    /\ Keys(ReadInstalledVersions(store))
         \subseteq Keys(ReadInstalledVersions(store0)) \cup {lastOp.key}

\* C24 witness: a key that was absent has been removed from a registry that
\* holds two records.
C24_Witness ==
  /\ lastOp.kind = "remove"
  /\ C24_Record(store0, lastOp.key) = << >>
  /\ Cardinality(Keys(ReadInstalledVersions(store))) = 2

\* C25: when the install key of the resolved entry is in the registry, the
\* command goes no further than the check; it has then fetched, downloaded,
\* extracted and published nothing, the registry and the install path are
\* as they were, it fails with no error, and once withLock has ended the
\* callback has returned normally and the lock is released. A build the
\* command has installed is in the registry, so that a second run is such
\* a run.
C25_AlreadyInstalledNoOp ==
  /\ (ipc \notin {"start", "check"}
        /\ InstallKey(resolved) \in Keys(ReadInstalledVersions(reg0)))
       => ipc = "already"
  /\ ipc = "already" =>
       /\ regFile = reg0
       /\ final = final0
       /\ metaSize = 0
       /\ ~zip.exists
       /\ ~tmpExists
       /\ ~src.exists
       /\ copied = {}
       /\ err = "none"
  /\ (ipc = "already" /\ pc[Cmd] = "done") =>
       /\ fnResult[Cmd] = "ok"
       /\ released[Cmd]
       /\ ~lockDir.exists
  /\ ipc = "installed" =>
       InstallKey(resolved) \in Keys(ReadInstalledVersions(regFile))

\* C25 witness: the command has ended for a build that was installed, with
\* the application in place and the lock released.
C25_Witness ==
  /\ ipc = "already"
  /\ pc[Cmd] = "done"
  /\ ~lockDir.exists
  /\ final.exists
  /\ final = final0
  /\ regFile = reg0

\* the record of key k in a registry file, or that there is none
C26_Record(file, k) ==
  LET obj == ReadInstalledVersions(file)
  IN IF k \in Keys(obj) THEN <<Get(obj, k)>> ELSE << >>

\* C26: the uninstall command acts only while it holds the lock; given a key
\* of the registry it uninstalls that key; and when it has succeeded, the
\* key it uninstalled was in the registry, the application directory at the
\* path recorded for it, profiles/<key> and tmp/<key> do not exist, the
\* registry has no record of the key, and every other record is as it was.
C26_UninstallPostState ==
  /\ upc \notin {"start", "done", "failed"} =>
       pc[Cmd] = "body" /\ lockDir.exists /\ lockDir.owner = Cmd
  /\ upc # "start" => pc[Cmd] \in {"body", "release", "done"}
  /\ (upc # "start" /\ uquery \in Keys(ReadInstalledVersions(ureg0)))
       => ukey = uquery /\ uerr # "notinstalled"
  /\ upc = "done" =>
       /\ ukey \in Keys(ReadInstalledVersions(ureg0))
       /\ Get(ReadInstalledVersions(ureg0), ukey).path \notin apps
       /\ ukey \notin profiles
       /\ ukey \notin tmps
       /\ ukey \notin Keys(ReadInstalledVersions(ureg))
       /\ \A k \in InstalledKeys \ {ukey} :
            C26_Record(ureg, k) = C26_Record(ureg0, k)

\* C26 witness: a build with its application, profile and temporary
\* directories has been uninstalled, another build is still registered, and
\* the lock is released.
C26_Witness ==
  /\ upc = "done"
  /\ pc[Cmd] = "done"
  /\ ~lockDir.exists
  /\ FinalPath(ukey) \notin apps
  /\ Keys(ReadInstalledVersions(ureg0)) = InstalledKeys
  /\ Cardinality(Keys(ReadInstalledVersions(ureg))) = 2

\* the releases of channel c among allReleases
C27_Of(c) == SelectSeq(xrels, LAMBDA r : r.channel = ChannelNames[c])

\* C27: the build is aborted by nothing but the failure of the fetch of a
\* page of the revision listing, and then the command fails and
\* available.json is as it was; whichever channel fetches fail, the build
\* goes on, with no release of a channel whose fetch failed and with the
\* releases of every channel whose fetch returned them.
C27_FailureIsolation ==
  /\ xerr = "revisions" => xpc = "failed"
  /\ xpc = "failed" => xerr = "revisions" /\ avail = avail0 /\ xbuilt = << >>
  /\ xpc \in {"build", "write", "warned", "updated"} =>
       \A c \in Channels :
         /\ chans[c] = "fail" => C27_Of(c) = << >>
         /\ chans[c] = "some" => C27_Of(c) = ChannelListing(c)

\* C27 witness: the command has written a catalog with a version found in
\* the releases of one channel while the fetches of two others failed.
C27_Witness ==
  /\ xpc = "updated"
  /\ Cardinality({c \in Channels : chans[c] = "fail"}) = 2
  /\ \E i \in DOMAIN xbuilt : xbuilt[i].hasVersion
  /\ avail # avail0

\* C28: when the update command has ended without a failure, the catalog
\* read from available.json is the catalog it built, with nothing of the
\* catalog that was there before, also when the catalog it built is empty.
C28_FullReplacement ==
  xpc \in {"warned", "updated"} => ReadAvailableVersions(avail) = xbuilt

\* C29: a read of available.json or of installed.json fails with the parse
\* error when the file exists and its content is not JSON, and returns the
\* empty catalog or registry when the file does not exist; it returns empty
\* only for a file that does not exist or whose content is the empty one.
C29_CorruptIsAnError ==
  rdResult # NoRead =>
    /\ (rdFile.exists /\ ~IsJson(rdKind, rdFile.text))
         => rdResult.kind = "SyntaxError"
    /\ ~rdFile.exists => rdResult = [kind |-> "value", val |-> << >>]
    /\ rdResult = [kind |-> "value", val |-> << >>]
         => ~rdFile.exists \/ rdFile.text = << >>

\* C29 witness: the read of a registry file cut short inside its second
\* record has failed with the parse error.
C29_Witness ==
  /\ rdKind = "registry"
  /\ rdFile.exists
  /\ Len(rdFile.text) = 2
  /\ ~IsJson(rdKind, rdFile.text)
  /\ rdResult.kind = "SyntaxError"

\* the bytes of the first i chunks
RECURSIVE C30_Sum(_)
C30_Sum(i) == IF i = 0 THEN 0 ELSE chunks[i] + C30_Sum(i - 1)

\* C30: when the response declares a total greater than 0, the observer has
\* been called once for each chunk written, in the order of the chunks,
\* each time with `transferred` the number of bytes written up to that
\* chunk; when the total is 0 it has not been called.
C30_NotifiedPerChunk ==
  /\ totalSize > 0 =>
       /\ Len(notes) = Len(chunks)
       /\ \A i \in DOMAIN notes :
            Prop(notes[i], "transferred") = Number(C30_Sum(i))
  /\ totalSize = 0 => notes = << >>

\* C31: the output of mergeRevisionsWithVersions holds at most one entry per
\* revision identifier, even when the listing names a revision twice
C31_Deduplicates ==
  mpc = "merged" =>
    \A i, j \in DOMAIN available :
      available[i].revision = available[j].revision => i = j

\* C32: every revision given to mergeRevisionsWithVersions appears in its
\* output, a revision with no version mapping included
C32_KeepsEveryRevision ==
  mpc = "merged" =>
    \A i \in DOMAIN revisions :
      \E j \in DOMAIN available : available[j].revision = revisions[i]

\* C33: when the install command has failed at a step after resolution
\* (download, extraction, publish, or verification after the publish), the
\* install path and the registry are exactly as they were before the
\* command.
C33_FailedInstallInvisible ==
  (ipc = "failed"
     /\ err \in {"download", "extract", "nobundle", "move", "verify"}) =>
    /\ final = final0
    /\ regFile = reg0

\* C39: when the install command has ended, having installed the build or
\* having failed during download, extraction, publish or verification, the
\* downloaded archive tmp/chrome-<revision>.zip no longer exists.
C39_ArchiveDiscarded ==
  (\/ ipc = "installed"
   \/ /\ ipc = "failed"
      /\ err \in {"download", "extract", "nobundle", "move", "verify"}) =>
    ~zip.exists

\* C34: when finalPath held a previous installation (a directory that is
\* not empty) and atomicInstall has returned normally, finalPath holds
\* exactly the content populate returned: no file of the previous
\* installation remains.
C34_ReplacementExact ==
  (ipc = "unlink" /\ final0.exists /\ DOMAIN final0.files # {}) =>
    /\ final.exists
    /\ final.files = archive.files

\* the release the lookup has at branch position n: the first one listed
\* there by the first channel, in the order Stable, Beta, Dev, Canary, whose
\* fetch returned one
C35_At(n) ==
  LET at(c) == {i \in DOMAIN ChannelListing(c) : ChannelListing(c)[i].position = n}
      cs == {c \in Channels : chans[c] = "some" /\ at(c) # {}}
  IN IF n <= 0 \/ cs = {} THEN << >>
     ELSE LET c == CHOOSE k \in cs : \A j \in cs : k <= j
              i == CHOOSE k \in at(c) : \A j \in at(c) : k <= j
          IN <<ChannelListing(c)[i]>>

\* the offsets +1, -1, +2, -2, ..., +50, -50
C35_Offsets ==
  [k \in 1..(2 * ProbeWindow) |->
     IF k % 2 = 1 THEN (k + 1) \div 2 ELSE 0 - (k \div 2)]

\* the release of revision r: the one at r, else the first hit of the probe
C35_Release(r) ==
  IF C35_At(r) # << >> THEN C35_At(r)
  ELSE LET hits == {k \in DOMAIN C35_Offsets : C35_At(r + C35_Offsets[k]) # << >>}
       IN IF hits = {} THEN << >>
          ELSE C35_At(r + C35_Offsets[CHOOSE k \in hits : \A j \in hits : k <= j])

\* C35: the catalog has one entry per listed revision r; the entry takes the
\* release at branch position r if the lookup has one, otherwise the first
\* hit when probing r+1, r-1, r+2, r-2, ..., r+50, r-50 in that order, and is
\* unversioned (version null, hasVersion false) when there is no hit; the
\* lookup keeps the first release per position in the order Stable, Beta,
\* Dev, Canary.
C35_ProbeOrder ==
  xpc \in {"write", "updated", "warned"} =>
    /\ Len(xbuilt) = Len(xrevs)
    /\ \A i \in DOMAIN xrevs : \E j \in DOMAIN xbuilt : xbuilt[j].revision = xrevs[i]
    /\ \A j \in DOMAIN xbuilt :
         LET e == xbuilt[j]
             rel == C35_Release(ToNumber(e.revision))
         IN IF rel = << >>
              THEN e.version = Null /\ ~e.hasVersion
              ELSE /\ e.version = rel[1].version
                   /\ e.channel = rel[1].channel
                   /\ e.hasVersion

\* C35 witness: revision 90 is listed, Beta has a release at position 95 and
\* Canary one at 85; the entry of revision 90 is Beta's.
C35_Witness ==
  /\ xpc = "write"
  /\ chans[2] = "some" /\ chans[4] = "some"
  /\ \E j \in DOMAIN xbuilt :
       /\ xbuilt[j].revision = <<"9", "0">>
       /\ xbuilt[j].version = <<"9", ".", "1">>
       /\ xbuilt[j].channel = <<"Beta">>

\* the install key of a catalog entry (cli.js 158): version || revision
C37_Key(e) == IF Falsy(e.version) THEN e.revision ELSE e.version

\* C37: in a catalog buildAvailableVersions returns, no two entries have the
\* same install key (the version if known, else the revision).
C37_InstallKeysUnique ==
  mpc = "built" =>
    \A i, j \in DOMAIN available :
      C37_Key(available[i]) = C37_Key(available[j]) => i = j

\* C36: an uninstall whose argument is no registry key and resolves through
\* the catalog to a build that is installed, under its version or, having
\* no known version, under its revision, does not fail as 'not installed',
\* and when it has succeeded that build's directory and record are removed.
C36_UninstallByQuery ==
  (/\ upc # "start"
   /\ uquery \notin Keys(ReadInstalledVersions(ureg0))
   /\ uentry # NoEntry
   /\ InstallKey(uentry) \in Keys(ReadInstalledVersions(ureg0))) =>
    /\ uerr # "notinstalled"
    /\ upc = "done" =>
         /\ ukey = InstallKey(uentry)
         /\ FinalPath(ukey) \notin apps
         /\ ukey \notin Keys(ReadInstalledVersions(ureg))

\* C40: every progress notification carries a percent within 0..100 and a
\* transferred count that does not exceed the total, whatever the chunk
\* sizes and the declared total, a body longer than the declared length
\* included. The two values are read under the names downloadWithProgress
\* gives them, percentage and downloaded.
C40_PercentBounded ==
  \A i \in DOMAIN notes :
    LET percent == Prop(notes[i], "percentage")
        transferred == Prop(notes[i], "downloaded")
        total == Prop(notes[i], "total")
    IN /\ percent.type = "number" /\ transferred.type = "number"
       /\ percent.val >= 0 /\ percent.val <= 100
       /\ transferred.val <= total.val

\* C38: whenever a process holds the lock, the lock file exists and the pid
\* it records is the holder's, also when the file was there before the
\* holder called acquireLock.
C38_LockFileNamesHolder ==
  \A p \in Procs :
    (pc[p] = "body" /\ lockDir.exists /\ lockDir.owner = p) =>
      /\ lockFile.exists
      /\ lockFile.pid = p
====
